---- MODULE Spec2Model ----
(***************************************************************************)
(* A model of hazae41/result: the early-return mechanism                   *)
(* (Result.unthrow / Result.unthrowSync with Err.throw / Ok.throw), the    *)
(* short-circuit collection (Result.all / Result.maybeAll), the methods of *)
(* Ok, Err, Some and None, and the leak detector of the debug build.       *)
(*                                                                         *)
(* Every JavaScript value is a record with a "tag" field, so that any two  *)
(* values can be compared.  An instance of Ok or Err carries an "id": two  *)
(* instances are the same object exactly when they are equal records.      *)
(***************************************************************************)
EXTENDS Integers, Sequences, FiniteSets, TLC

\* ------------------------------------------------------------------ bounds
\* nesting depth of unthrow scopes
MaxDepth == 2
\* how many times throwers may be invoked in one run
MaxCalls == 2

\* ------------------------------------------------------------------ values
Undefined == [tag |-> "undefined"]
Null == [tag |-> "null"]
Val(n) == [tag |-> "value", v |-> n]

\* `new Ok(inner)` and `new Err(inner)`; id is the identity of the new object
NewOk(id, inner) == [tag |-> "Ok", id |-> id, inner |-> inner]
NewErr(id, inner) == [tag |-> "Err", id |-> id, inner |-> inner]

\* `new Error()` raised by code that is not Err.throw
NewError(id) == [tag |-> "Error", id |-> id]
\* `new Panic("Thrown result was try-catched")`
ThrownPanic == [tag |-> "Panic", message |-> "Thrown result was try-catched"]

isOk(r) == r.tag = "Ok"
isErr(r) == r.tag = "Err"
get(r) == r.inner

\* ------------------------------------------------- Err.throw and Ok.throw
\* The effect of `result.throw(thrower)`: the arguments the thrower is invoked
\* with (in order), the payload raised (at most one) and the value returned
\* (at most one).
Effect(invoked, raised, returned) ==
  [invoked |-> invoked, raised |-> raised, returned |-> returned]

\* faulty variant: the thrower is handed the inner value, not the Err
ErrThrowInner(this) == Effect(<<get(this)>>, <<this>>, <<>>)
\* Err.throw: thrower(this); throw this
ErrThrow(this) == Effect(<<this>>, <<this>>, <<>>)

\* Err.throw of the build with the leak detector:
\* thrower(this); throw new Panic(`Thrown result was try-catched`)
ErrThrowPanic(this) == Effect(<<this>>, <<ThrownPanic>>, <<>>)

\* Ok.throw: return this.inner
OkThrow(this) == Effect(<<>>, <<>>, <<get(this)>>)

\* ------------------------------------------------ unthrow and unthrowSync
\* faulty variant: a slot that is already filled is not overwritten
throwerKeepsFirst(ref, e) == IF ref = [tag |-> "undefined"] THEN e ELSE ref
\* the thrower closure `(e) => ref = e`: the new content of the slot
thrower(ref, e) == e

Returned(v) == [kind |-> "return", val |-> v]
Thrown(v) == [kind |-> "throw", val |-> v]

\* faulty variants of the guard: the slot is never consulted; the slot wins
\* over a normal return; an exception is wrapped in an Err when the slot is
\* empty
unthrowSyncRethrows(ref, outcome) == outcome
unthrowSyncPrefersRef(ref, outcome) ==
  IF ref # Undefined THEN Returned(ref) ELSE outcome
unthrowSyncWraps(ref, outcome) ==
  IF outcome.kind = "return" THEN outcome
  ELSE IF ref # Undefined THEN Returned(ref)
  ELSE Returned(NewErr(0, outcome.val))
\* unthrowSync: try { return callback(t) } catch (e) { if (ref !== undefined)
\* return ref; throw e }, given the slot as the callback left it and the
\* callback's outcome
unthrowSync(ref, outcome) ==
  IF outcome.kind = "return" THEN outcome
  ELSE IF ref # Undefined THEN Returned(ref)
  ELSE Thrown(outcome.val)

\* unthrow: the same guard around `await callback(t)`
unthrow(ref, outcome) ==
  IF outcome.kind = "return" THEN outcome
  ELSE IF ref # Undefined THEN Returned(ref)
  ELSE Thrown(outcome.val)

\* ------------------------------------------------------------------- state
VARIABLES
  build,    \* which Err.throw is linked: "mod" (throw this) or "legacy"
  mode,     \* "sync": unthrowSync scopes; "async": unthrow scopes, awaited
  st,       \* per scope: "idle", "running", "returned", "raised"
  ref,      \* per scope: the slot `let ref`
  sig,      \* per scope: the signal in flight inside its callback, or NoSig
  awaiting, \* per scope: its callback is suspended at an await
  calls,    \* per scope: how many times its thrower was invoked
  caught,   \* per scope: the signal its catch block received, or NoSig
  cbret,    \* per scope: what its callback returned, or Undefined
  out,      \* per scope: what it returned, or the payload it raised
  last,     \* the most recent step of a callback
  fn,       \* the collection called: "all" or "maybeAll"
  source,   \* the source sequence handed to it
  runs,     \* how many times it was called on that source
  pc,       \* "idle", "loop" (inside collect's loop), "done"
  pulled,   \* how many elements the source was asked for in this call
  array,    \* collect's `array`
  cur,      \* collect's `result`: the last answer of iterator.next()
  created,  \* how many objects the calls have constructed
  ret,      \* what the last finished call returned
  prev,     \* what the call before it returned
  subject,  \* the Ok, Err, Some or None the next method is called on
  made,     \* how many objects the constructors and methods have created
  recv,     \* the receiver of the last method call
  opname,   \* the method last called
  input,    \* the arguments it was given
  answer,   \* what it returned or raised
  fcalls,   \* the callback invocations it made, in order
  debug,    \* the flag Result.debug
  objs,     \* the Ok and Err instances of the leak-detector build
  timers,   \* the handles of the timers the runtime has scheduled
  panics,   \* the Panics raised by timer callbacks
  lastop    \* the last method called on an instance of that build

unthrowVars ==
  <<build, mode, st, ref, sig, awaiting, calls, caught, cbret, out, last>>
collectVars ==
  <<fn, source, runs, pc, pulled, array, cur, created, ret, prev>>
opsVars == <<subject, made, recv, opname, input, answer, fcalls>>
leakVars == <<debug, objs, timers, panics, lastop>>
vars == <<unthrowVars, collectVars, opsVars, leakVars>>

Scopes == 1..MaxDepth
Errs == {NewErr(1, Val(1)), NewErr(2, Val(2))}
Oks == {NewOk(3, Val(3))}
Errors == {NewError(1)}

NoSig == [tag |-> "none"]
\* a signal in flight: its payload, the scope whose thrower Err.throw was
\* given (0 when it was not raised by Err.throw) and the Err that raised it
Signal(payload, origin, err) ==
  [tag |-> "signal", payload |-> payload, origin |-> origin, err |-> err]

NoStep == [op |-> "none"]

UnthrowInit ==
  /\ build \in {"mod", "legacy"}
  /\ mode \in {"sync", "async"}
  /\ st = [s \in Scopes |-> "idle"]
  /\ ref = [s \in Scopes |-> Undefined]
  /\ sig = [s \in Scopes |-> NoSig]
  /\ awaiting = [s \in Scopes |-> FALSE]
  /\ calls = [s \in Scopes |-> 0]
  /\ caught = [s \in Scopes |-> NoSig]
  /\ cbret = [s \in Scopes |-> Undefined]
  /\ out = [s \in Scopes |-> Undefined]
  /\ last = NoStep
  \* no collection is running
  /\ fn = "all"
  /\ source = <<>>
  /\ runs = 0
  /\ pc = "idle"
  /\ pulled = 0
  /\ array = <<>>
  /\ cur = [done |-> TRUE, value |-> Undefined]
  /\ created = 0
  /\ ret = [tag |-> "none"]
  /\ prev = [tag |-> "none"]
  \* no method call has been made
  /\ subject = [tag |-> "undefined"]
  /\ made = 0
  /\ recv = [tag |-> "undefined"]
  /\ opname = "none"
  /\ input = [tag |-> "none"]
  /\ answer = [kind |-> "none"]
  /\ fcalls = <<>>
  \* no instance of the leak-detector build exists
  /\ debug = FALSE
  /\ objs = <<>>
  /\ timers = {}
  /\ panics = {}
  /\ lastop = [op |-> "none"]

\* the callback of scope s is the code that is executing
Current(s) ==
  /\ st[s] = "running"
  /\ \A c \in Scopes : c > s => st[c] # "running"
  /\ ~awaiting[s]

\* the callback of scope s can take an ordinary step
Ready(s) == Current(s) /\ sig[s] = NoSig

RECURSIVE TotalCalls(_)
\* the thrower invocations of scopes 1..n so far
TotalCalls(n) == IF n = 0 THEN 0 ELSE calls[n] + TotalCalls(n - 1)

\* the throwers a callback of scope s can name: its own and the enclosing ones
Throwers(s) == {t \in Scopes : t <= s /\ st[t] = "running"}

\* Result.unthrowSync(callback) / await Result.unthrow(callback) is called,
\* at top level (s = 1) or by the callback of scope s - 1: `let ref`
Enter(s) ==
  /\ st[s] = "idle"
  /\ IF s = 1 THEN TRUE ELSE Ready(s - 1)
  /\ st' = [st EXCEPT ![s] = "running"]
  /\ ref' = [ref EXCEPT ![s] = Undefined]
  /\ last' = [op |-> "enter", scope |-> s]
  /\ UNCHANGED <<build, mode, sig, awaiting, calls, caught, cbret, out,
               collectVars, opsVars, leakVars>>

RECURSIVE Invoke(_, _)
\* the slot after the thrower was invoked with each of args in turn
Invoke(slot, args) ==
  IF args = <<>> THEN slot
  ELSE Invoke(thrower(slot, Head(args)), Tail(args))

\* the implementation of r.throw for the linked build
ThrowOf(r) ==
  IF isOk(r) THEN OkThrow(r)
  ELSE IF build = "mod" THEN ErrThrow(r) ELSE ErrThrowPanic(r)

\* the callback of scope s calls r.throw(t), t the thrower of scope t
Throw(s, r, t) ==
  /\ Ready(s)
  /\ t \in Throwers(s)
  /\ TotalCalls(MaxDepth) < MaxCalls
  /\ LET eff == ThrowOf(r) IN
       /\ ref' = [ref EXCEPT ![t] = Invoke(ref[t], eff.invoked)]
       /\ calls' = [calls EXCEPT ![t] = calls[t] + Len(eff.invoked)]
       /\ sig' = [sig EXCEPT ![s] =
                    IF eff.raised = <<>> THEN NoSig
                    ELSE Signal(eff.raised[1], t, r)]
       /\ last' = [op |-> "throw", scope |-> s, recv |-> r, thrower |-> t,
                   callsBefore |-> calls[t], refBefore |-> ref[t],
                   returned |-> eff.returned]
  /\ UNCHANGED <<build, mode, st, awaiting, caught, cbret, out,
               collectVars, opsVars, leakVars>>

\* the callback of scope s invokes a thrower itself: t(e)
CallThrower(s, e, t) ==
  /\ Ready(s)
  /\ t \in Throwers(s)
  /\ TotalCalls(MaxDepth) < MaxCalls
  /\ ref' = [ref EXCEPT ![t] = thrower(ref[t], e)]
  /\ calls' = [calls EXCEPT ![t] = calls[t] + 1]
  /\ last' = [op |-> "thrower", scope |-> s, recv |-> e, thrower |-> t]
  /\ UNCHANGED <<build, mode, st, sig, awaiting, caught, cbret, out,
               collectVars, opsVars, leakVars>>

\* the callback of scope s raises an exception of its own: throw new Error()
Raise(s, x) ==
  /\ Ready(s)
  /\ sig' = [sig EXCEPT ![s] = Signal(x, 0, Undefined)]
  /\ last' = [op |-> "raise", scope |-> s]
  /\ UNCHANGED <<build, mode, st, ref, awaiting, calls, caught, cbret, out,
               collectVars, opsVars, leakVars>>

\* a try/catch inside the callback of scope s swallows the signal in flight
Catch(s) ==
  /\ Current(s)
  /\ sig[s] # NoSig
  /\ sig' = [sig EXCEPT ![s] = NoSig]
  /\ last' = [op |-> "catch", scope |-> s]
  /\ UNCHANGED <<build, mode, st, ref, awaiting, calls, caught, cbret, out,
               collectVars, opsVars, leakVars>>

\* the callback of an unthrow scope suspends at an await of its own
Await(s) ==
  /\ mode = "async"
  /\ Ready(s)
  /\ awaiting' = [awaiting EXCEPT ![s] = TRUE]
  /\ last' = [op |-> "await", scope |-> s]
  /\ UNCHANGED <<build, mode, st, ref, sig, calls, caught, cbret, out,
               collectVars, opsVars, leakVars>>

\* ... and is resumed by the scheduler
Resume(s) ==
  /\ st[s] = "running"
  /\ awaiting[s]
  /\ awaiting' = [awaiting EXCEPT ![s] = FALSE]
  /\ last' = [op |-> "resume", scope |-> s]
  /\ UNCHANGED <<build, mode, st, ref, sig, calls, caught, cbret, out,
               collectVars, opsVars, leakVars>>

\* the guard of the linked form
Guard(slot, outcome) ==
  IF mode = "sync" THEN unthrowSync(slot, outcome) ELSE unthrow(slot, outcome)

\* scope s ends with result res; a raise lands in the callback that called it
Leave(s, res, signal) ==
  /\ st' = [st EXCEPT ![s] = IF res.kind = "return" THEN "returned" ELSE "raised"]
  /\ out' = [out EXCEPT ![s] = res.val]
  /\ caught' = [caught EXCEPT ![s] = signal]
  /\ sig' = [s2 \in Scopes |->
               IF s2 = s THEN NoSig
               ELSE IF s2 = s - 1 /\ res.kind = "throw"
                 THEN IF signal # NoSig /\ res.val = signal.payload
                        THEN signal
                        ELSE Signal(res.val, 0, Undefined)
               ELSE sig[s2]]

\* the callback of scope s returns v: `return callback(...)`
Return(s, v) ==
  /\ Ready(s)
  /\ cbret' = [cbret EXCEPT ![s] = v]
  /\ Leave(s, Guard(ref[s], Returned(v)), NoSig)
  /\ last' = [op |-> "return", scope |-> s]
  /\ UNCHANGED <<build, mode, ref, awaiting, calls,
               collectVars, opsVars, leakVars>>

\* the signal in flight leaves the callback of scope s: the catch block
Escape(s) ==
  /\ Current(s)
  /\ sig[s] # NoSig
  /\ Leave(s, Guard(ref[s], Thrown(sig[s].payload)), sig[s])
  /\ last' = [op |-> "escape", scope |-> s]
  /\ UNCHANGED <<build, mode, ref, awaiting, calls, cbret,
               collectVars, opsVars, leakVars>>

UnthrowNext ==
  \/ \E s \in Scopes : Enter(s)
  \/ \E s \in Scopes, r \in Errs \cup Oks, t \in Scopes : Throw(s, r, t)
  \/ \E s \in Scopes, e \in Errs, t \in Scopes : CallThrower(s, e, t)
  \/ \E s \in Scopes, x \in Errors : Raise(s, x)
  \/ \E s \in Scopes : Catch(s)
  \/ \E s \in Scopes : Await(s)
  \/ \E s \in Scopes : Resume(s)
  \/ \E s \in Scopes, v \in Errs \cup Oks : Return(s, v)
  \/ \E s \in Scopes : Escape(s)

SpecUnthrow == UnthrowInit /\ [][UnthrowNext]_vars

Done(s) == st[s] \in {"returned", "raised"}
\* ------------------------------------------------ Result.all and maybeAll
\* bounds: the length of a source, and the calls made on one source
MaxLen == 3
MaxRuns == 2

Inners == {Val(1), Val(2)}
\* the i-th element of a source is an object of its own
ResultsAt(i) == {NewOk(i, v) : v \in Inners} \cup {NewErr(i, v) : v \in Inners}
NullablesAt(i) == ResultsAt(i) \cup {Undefined, Null}
ElementsAt(i) == IF fn = "all" THEN ResultsAt(i) ELSE NullablesAt(i)
RECURSIVE SourcesOfLen(_)
SourcesOfLen(n) ==
  IF n = 0 THEN {<<>>}
  ELSE {Append(q, x) : q \in SourcesOfLen(n - 1), x \in ElementsAt(n)}

\* the identity of the next object a call constructs
FreshId == MaxLen + created + 1
\* Ok.void(): new Ok<void>(undefined)
OkVoid(id) == NewOk(id, Undefined)

\* faulty variant: the receiver's own inner value is overwritten
OkSetInPlace(this, inner, id) == [this EXCEPT !.inner = inner]
\* Ok.set(inner): return new Ok(inner)
OkSet(this, inner, id) == NewOk(id, inner)
\* faulty variant: a new Err with the same inner value is returned
ErrSetCopies(this, inner) == NewErr(0, this.inner)
\* Err.set(_inner): return this
ErrSet(this, inner) == this
set(this, inner, id) ==
  IF isOk(this) THEN OkSet(this, inner, id) ELSE ErrSet(this, inner)

\* an answer of iterator.next(), with the number of source elements the
\* generator has asked for so far
IterResult(done, value, asked) ==
  [done |-> done, value |-> value, asked |-> asked]

\* faulty variant: the loop runs to the end and reports the last Err
iterateLastErr(iterable, i, id) ==
  IF i < Len(iterable)
    THEN LET result == iterable[i + 1] IN
         IF isOk(result)
           THEN IterResult(FALSE, get(result), i + 1)
           ELSE LET k == CHOOSE k \in (i + 1)..Len(iterable) :
                            /\ ~isOk(iterable[k])
                            /\ \A j \in (k + 1)..Len(iterable) : isOk(iterable[j])
                IN IterResult(TRUE, iterable[k], Len(iterable))
  ELSE IterResult(TRUE, OkVoid(id), i)
\* Result.iterate resumed after i elements: for (const result of iterable)
\* { if (result.isOk()) yield result.get(); else return result }
\* return Ok.void()
iterate(iterable, i, id) ==
  IF i < Len(iterable)
    THEN LET result == iterable[i + 1] IN
         IF isOk(result)
           THEN IterResult(FALSE, get(result), i + 1)
           ELSE IterResult(TRUE, result, i + 1)
  ELSE IterResult(TRUE, OkVoid(id), i)

\* faulty variant: an absent element is yielded instead of ending the loop
maybeIterateSkipsAbsent(iterable, i, id) ==
  IF i < Len(iterable)
    THEN LET result == iterable[i + 1] IN
         IF result \in {Undefined, Null}
           THEN IterResult(FALSE, result, i + 1)
         ELSE IF isOk(result)
           THEN IterResult(FALSE, get(result), i + 1)
           ELSE IterResult(TRUE, result, i + 1)
  ELSE IterResult(TRUE, OkVoid(id), i)
\* Result.maybeIterate resumed after i elements: as iterate, but
\* if (result == null) return result
maybeIterate(iterable, i, id) ==
  IF i < Len(iterable)
    THEN LET result == iterable[i + 1] IN
         IF result \in {Undefined, Null}
           THEN IterResult(TRUE, result, i + 1)
         ELSE IF isOk(result)
           THEN IterResult(FALSE, get(result), i + 1)
           ELSE IterResult(TRUE, result, i + 1)
  ELSE IterResult(TRUE, OkVoid(id), i)

\* faulty variant: the array outlives the call
newArrayReused(old) == old
\* const array = new Array<T>()
newArray(old) == <<>>

\* faulty variant: unshift instead of push
pushFront(a, value) == <<value>> \o a
\* array.push(result.value)
push(a, value) == Append(a, value)

\* collect: return result.value.set(array)
collect(value, a, id) == set(value, a, id)
\* maybeCollect: if (result.value == null) return;
\* return result.value.set(array)
maybeCollect(value, a, id) ==
  IF value \in {Undefined, Null} THEN Undefined ELSE set(value, a, id)

\* whether the last answer of the generator constructed an object (Ok.void())
Constructed(r) == IF r.done /\ isOk(r.value) THEN 1 ELSE 0

\* iterator.next() of the generator of the called function
IteratorNext(i) ==
  IF fn = "all" THEN iterate(source, i, FreshId)
  ELSE maybeIterate(source, i, FreshId)

NoResult == [tag |-> "none"]

\* Result.all(source) / Result.maybeAll(source) is called: collect(iterate(
\* source)) as far as `let result = iterator.next()`
AllCall ==
  /\ pc \in {"idle", "done"}
  /\ runs < MaxRuns
  /\ runs' = runs + 1
  /\ prev' = ret
  /\ ret' = NoResult
  /\ array' = newArray(array)
  /\ LET r == IteratorNext(0) IN
       /\ cur' = [done |-> r.done, value |-> r.value]
       /\ pulled' = r.asked
       /\ created' = created + Constructed(r)
  /\ pc' = "loop"
  /\ UNCHANGED <<fn, source, unthrowVars, opsVars, leakVars>>

\* one turn of `for (; !result.done; result = iterator.next())`
CollectLoop ==
  /\ pc = "loop"
  /\ ~cur.done
  /\ array' = push(array, cur.value)
  /\ LET r == IteratorNext(pulled) IN
       /\ cur' = [done |-> r.done, value |-> r.value]
       /\ pulled' = r.asked
       /\ created' = created + Constructed(r)
  /\ UNCHANGED <<fn, source, runs, pc, ret, prev, unthrowVars, opsVars, leakVars>>

\* the loop has ended: the return statement of collect / maybeCollect
CollectReturn ==
  /\ pc = "loop"
  /\ cur.done
  /\ ret' = IF fn = "all" THEN collect(cur.value, array, FreshId)
            ELSE maybeCollect(cur.value, array, FreshId)
  /\ created' = created + (IF isOk(cur.value) THEN 1 ELSE 0)
  /\ pc' = "done"
  /\ UNCHANGED <<fn, source, runs, pulled, array, cur, prev, unthrowVars, opsVars, leakVars>>

AllInit ==
  /\ fn \in {"all", "maybeAll"}
  /\ source \in UNION {SourcesOfLen(n) : n \in 0..MaxLen}
  /\ runs = 0
  /\ pc = "idle"
  /\ pulled = 0
  /\ array = <<>>
  /\ cur = [done |-> TRUE, value |-> Undefined]
  /\ created = 0
  /\ ret = NoResult
  /\ prev = NoResult
  \* no unthrow scope is running
  /\ build = "mod"
  /\ mode = "sync"
  /\ st = [s \in Scopes |-> "idle"]
  /\ ref = [s \in Scopes |-> Undefined]
  /\ sig = [s \in Scopes |-> NoSig]
  /\ awaiting = [s \in Scopes |-> FALSE]
  /\ calls = [s \in Scopes |-> 0]
  /\ caught = [s \in Scopes |-> NoSig]
  /\ cbret = [s \in Scopes |-> Undefined]
  /\ out = [s \in Scopes |-> Undefined]
  /\ last = NoStep
  \* no method call has been made
  /\ subject = [tag |-> "undefined"]
  /\ made = 0
  /\ recv = [tag |-> "undefined"]
  /\ opname = "none"
  /\ input = [tag |-> "none"]
  /\ answer = [kind |-> "none"]
  /\ fcalls = <<>>
  \* no instance of the leak-detector build exists
  /\ debug = FALSE
  /\ objs = <<>>
  /\ timers = {}
  /\ panics = {}
  /\ lastop = [op |-> "none"]

AllNext == AllCall \/ CollectLoop \/ CollectReturn

SpecAll == AllInit /\ [][AllNext]_vars

\* ------------------------------------------------------- claims: unthrow
\* scope s ended in its catch block, which received a signal
CaughtAt(s) == Done(s) /\ caught[s] # NoSig
\* ... a signal that Err.throw raised through the thrower of scope t
CaughtFrom(s, t) == CaughtAt(s) /\ caught[s].origin = t

\* C1: when the callback aborts by err.throw(t) with its own thrower t and
\* that is the only use of t, unthrowSync / unthrow returns that very Err and
\* raises nothing
C1_ReturnsThrownErr ==
  \A s \in Scopes :
    (CaughtFrom(s, s) /\ calls[s] = 1) =>
      (st[s] = "returned" /\ out[s] = caught[s].err)

C1_Witness ==
  \E s \in Scopes :
    /\ CaughtFrom(s, s)
    /\ calls[s] = 1
    /\ st[s] = "returned"
    /\ out[s] \in Errs

\* C2: when the callback raises and its thrower was never invoked, the very
\* same exception is re-raised and no Err is returned in its place
C2_RethrowsWhenSlotEmpty ==
  \A s \in Scopes :
    (CaughtAt(s) /\ calls[s] = 0) =>
      (st[s] = "raised" /\ out[s] = caught[s].payload)

C2_Witness ==
  \E s \in Scopes :
    /\ CaughtAt(s)
    /\ calls[s] = 0
    /\ caught[s].payload \in Errors
    /\ st[s] = "raised"

\* C3: an exception that reaches the guard and was not raised by Err.throw
\* through this scope's own thrower propagates unchanged: it is never
\* swallowed and never replaced by a returned Err
C3_ForeignSignalPropagates ==
  \A s \in Scopes :
    (CaughtAt(s) /\ caught[s].origin # s) =>
      (st[s] = "raised" /\ out[s] = caught[s].payload)

\* C4: with an outer scope 1 and an inner scope 2 (unthrowSync), an Err
\* raised by err.throw(tO) in the inner callback is re-raised by the inner
\* scope and returned by the outer one; an Err raised by err.throw(tI) is
\* returned by the inner scope
C4_NestedScopesKeepTheirSignals ==
  mode = "sync" =>
    /\ CaughtFrom(2, 1) =>
         /\ st[2] = "raised"
         /\ out[2] = caught[2].payload
         /\ (CaughtAt(1) /\ caught[1] = caught[2]) =>
              (st[1] = "returned" /\ out[1] = caught[2].err)
    /\ CaughtFrom(2, 2) =>
         (st[2] = "returned" /\ out[2] = caught[2].err)

\* C5: when the callback returns normally, unthrowSync / unthrow returns
\* exactly the callback's return value, whatever the slot holds
C5_ReturnsCallbackValue ==
  \A s \in Scopes :
    (Done(s) /\ caught[s] = NoSig) =>
      (st[s] = "returned" /\ out[s] = cbret[s])

C5_Witness ==
  \E s \in Scopes :
    /\ Done(s)
    /\ caught[s] = NoSig
    /\ ref[s] # Undefined
    /\ cbret[s] # ref[s]
    /\ out[s] = cbret[s]

\* the state right after r.throw(t) was called in scope last.scope
AfterThrow == last.op = "throw"
\* Ok.throw(t) returns the inner value, raises nothing, never invokes t
OkThrowIsSilent ==
  (AfterThrow /\ isOk(last.recv)) =>
    /\ calls[last.thrower] = last.callsBefore
    /\ ref[last.thrower] = last.refBefore
    /\ sig[last.scope] = NoSig
    /\ last.returned = <<get(last.recv)>>
\* Err.throw(t) invokes t exactly once, with the Err itself, then raises
\* payload(the Err) and never returns
ErrThrowRaises(payload(_)) ==
  (AfterThrow /\ isErr(last.recv)) =>
    /\ calls[last.thrower] = last.callsBefore + 1
    /\ ref[last.thrower] = last.recv
    /\ last.returned = <<>>
    /\ sig[last.scope] # NoSig
    /\ sig[last.scope].origin = last.thrower
    /\ sig[last.scope].payload = payload(last.recv)

SameErr(e) == e
PayloadOfBuild(e) == IF build = "mod" THEN e ELSE ThrownPanic

FirstNotOk(q) ==
  IF \A i \in 1..Len(q) : isOk(q[i]) THEN 0
  ELSE CHOOSE i \in 1..Len(q) :
         /\ ~isOk(q[i])
         /\ \A j \in 1..(i - 1) : isOk(q[j])
\* the inner values of the elements of q, in order
InnersOf(q) == [i \in 1..Len(q) |-> get(q[i])]
Finished == pc = "done"

\* C7: when the source holds an Err, Result.all returns the Err at the
\* smallest index, and the source is asked for exactly the elements up to and
\* including it: never for a later one
C7_FirstErrShortCircuits ==
  (fn = "all" /\ runs > 0 /\ FirstNotOk(source) > 0) =>
    /\ pulled <= FirstNotOk(source)
    /\ Finished =>
         /\ ret = source[FirstNotOk(source)]
         /\ pulled = FirstNotOk(source)

C7_Witness ==
  /\ fn = "all"
  /\ Finished
  /\ FirstNotOk(source) > 0
  /\ FirstNotOk(source) < Len(source)
  /\ isErr(source[Len(source)])
  /\ ret = source[FirstNotOk(source)]
  /\ pulled < Len(source)

\* C8: when every element of the source is an Ok, Result.all returns an Ok
\* whose inner value is the array of the inner values, same length, same
\* order; the empty source gives Ok of the empty array
C8_AllOkCollects ==
  (fn = "all" /\ Finished /\ FirstNotOk(source) = 0) =>
    /\ isOk(ret)
    /\ Len(get(ret)) = Len(source)
    /\ get(ret) = InnersOf(source)

C8_Witness ==
  /\ fn = "all"
  /\ Finished
  /\ FirstNotOk(source) = 0
  /\ Len(source) >= 2
  /\ get(source[1]) # get(source[2])
  /\ isOk(ret)
  /\ get(ret) = InnersOf(source)

\* the outputs a and b show the same tag, the same collected values and,
\* for an Err, the same instance
SameOutput(a, b) ==
  /\ a.tag = b.tag
  /\ isOk(a) => get(a) = get(b)
  /\ isErr(a) => a = b

MaxMade == 2

\* `new Some(inner)` and `new None()`
NewSome(id, inner) == [tag |-> "Some", id |-> id, inner |-> inner]
NewNone(id) == [tag |-> "None", id |-> id]
\* `new NoneError()`
NewNoneError(id) == [tag |-> "NoneError", id |-> id]
\* the array literal `[a, b]`
Pair(a, b) == [tag |-> "array", items |-> <<a, b>>]
Bool(b) == [tag |-> "boolean", b |-> b]

\* one invocation `cb(x)` of a callback and the value it answers
CallOf(cb, x) == [cb |-> cb, x |-> x]
Apply(cb, x) == [tag |-> "applied", cb |-> cb, x |-> x]

\* what a method call did: its outcome, the callback invocations it made and
\* how many objects it constructed
Res(o, invocations, new) == [outcome |-> o, fcalls |-> invocations, made |-> new]
Gives(v) == Res(Returned(v), <<>>, 0)
Raises(v) == Res(Thrown(v), <<>>, 0)

\* the arguments of a call: a plain value, another Option and the answer the
\* predicate gives
NoInput == [tag |-> "none"]
Input(arg, other, p) == [tag |-> "input", arg |-> arg, other |-> other, p |-> p]

\* faulty variant: the mapper's answer is mapped once more
OkMapSyncTwice(this, id) ==
  Res(Returned(NewOk(id, Apply("okMapper", Apply("okMapper", this.inner)))),
      <<CallOf("okMapper", this.inner),
        CallOf("okMapper", Apply("okMapper", this.inner))>>, 1)
\* Ok.map / Ok.mapSync: return new Ok<U>(okMapper(this.inner))
OkMapSync(this, id) ==
  Res(Returned(NewOk(id, Apply("okMapper", this.inner))),
      <<CallOf("okMapper", this.inner)>>, 1)

\* faulty variant: a copy of the Err is returned
ErrMapSyncCopies(this, id) == Res(Returned(NewErr(id, this.inner)), <<>>, 1)
\* Err.map / Err.mapSync: return this
ErrMapSync(this, id) == Gives(this)

\* faulty variant: Ok.ok() answers None
OkOkNone(this, id) == Res(Returned(NewNone(id)), <<>>, 1)
\* Ok.ok: return new Some(this.inner)
OkOk(this, id) == Res(Returned(NewSome(id, this.inner)), <<>>, 1)
\* Ok.err: return new None()
OkErr(this, id) == Res(Returned(NewNone(id)), <<>>, 1)
\* Err.ok: return new None()
ErrOk(this, id) == Res(Returned(NewNone(id)), <<>>, 1)
\* Err.err: return new Some(this.inner)
ErrErr(this, id) == Res(Returned(NewSome(id, this.inner)), <<>>, 1)

\* Ok.get: return this.inner
OkGet(this) == Gives(this.inner)
\* faulty variant: Err.get raises the inner value
ErrGetInner(this, id) == Raises(this.inner)
\* Err.get: throw new Error()
ErrGet(this, id) == Res(Thrown(NewError(id)), <<>>, 1)
\* Ok.getErr: throw new Error()
OkGetErr(this, id) == Res(Thrown(NewError(id)), <<>>, 1)
\* Err.getErr: return this.inner
ErrGetErr(this) == Gives(this.inner)
\* Ok.getOrThrow: return this.inner
OkGetOrThrow(this) == Gives(this.inner)
\* Err.getOrThrow: throw this.inner
ErrGetOrThrow(this) == Raises(this.inner)
\* Ok.getErrOrThrow: throw this.inner
OkGetErrOrThrow(this) == Raises(this.inner)
\* Err.getErrOrThrow: return this.inner
ErrGetErrOrThrow(this) == Gives(this.inner)
\* Ok.checkOrThrow: return this
OkCheckOrThrow(this) == Gives(this)
\* faulty variant: Err.checkOrThrow returns the Err
ErrCheckOrThrowReturns(this) == Gives(this)
\* Err.checkOrThrow: throw this.inner
ErrCheckOrThrow(this) == Raises(this.inner)
\* Ok.checkErrOrThrow: throw this.inner
OkCheckErrOrThrow(this) == Raises(this.inner)
\* Err.checkErrOrThrow: return this
ErrCheckErrOrThrow(this) == Gives(this)

\* faulty variant: the two slots of the array are swapped
OkSplitSwapped(this) == Gives(Pair(Undefined, this.inner))
\* Ok.split: return [this.inner, undefined]
OkSplit(this) == Gives(Pair(this.inner, Undefined))
\* Err.split: return [undefined, this.inner]
ErrSplit(this) == Gives(Pair(Undefined, this.inner))

\* every method of Ok
OkMethod(this, op, in, id) ==
  CASE op = "isOk" -> Gives(Bool(TRUE))
    [] op = "isOkAndSync" ->
         Res(Returned(Bool(in.p)), <<CallOf("okPredicate", this.inner)>>, 0)
    [] op \in {"isErr", "isErrAndSync", "containsErr"} -> Gives(Bool(FALSE))
    [] op = "get" -> OkGet(this)
    [] op = "getErr" -> OkGetErr(this, id)
    [] op = "ok" -> OkOk(this, id)
    [] op = "err" -> OkErr(this, id)
    [] op = "split" -> OkSplit(this)
    [] op = "contains" -> Gives(Bool(this.inner = in.arg))
    [] op = "throw" -> Gives(OkThrow(this).returned[1])
    [] op = "getOrThrow" -> OkGetOrThrow(this)
    [] op = "getErrOrThrow" -> OkGetErrOrThrow(this)
    [] op \in {"getAny", "getOrNull", "getOr", "getOrElseSync", "flatten"} ->
         Gives(this.inner)
    [] op \in {"getErrOrNull", "checkErrOrNull"} -> Gives(Null)
    [] op = "checkOrThrow" -> OkCheckOrThrow(this)
    [] op = "checkErrOrThrow" -> OkCheckErrOrThrow(this)
    [] op \in {"checkOrNull", "clearErr", "inspectErrSync", "setErr",
               "mapErrSync", "or", "orElseSync"} -> Gives(this)
    [] op = "clear" -> Res(Returned(OkVoid(id)), <<>>, 1)
    [] op \in {"inspect", "inspectSync"} ->
         Res(Returned(this), <<CallOf("okCallback", this.inner)>>, 0)
    [] op = "set" -> Res(Returned(OkSet(this, in.arg, id)), <<>>, 1)
    [] op \in {"map", "mapSync"} -> OkMapSync(this, id)
    [] op \in {"mapOrSync", "mapOrElseSync", "andThenSync"} ->
         Res(Returned(Apply("okMapper", this.inner)),
             <<CallOf("okMapper", this.inner)>>, 0)
    [] op = "and" -> Gives(in.arg)

\* faulty variant: the receiver is returned and the mapper is not invoked
ErrOrElseSyncKeepsThis(this) == Gives(this)
\* Err.orElseSync: return errMapper(this.inner)
ErrOrElseSync(this) ==
  Res(Returned(Apply("errMapper", this.inner)),
      <<CallOf("errMapper", this.inner)>>, 0)

\* every method of Err
ErrMethod(this, op, in, id) ==
  CASE op = "isErr" -> Gives(Bool(TRUE))
    [] op = "isErrAndSync" ->
         Res(Returned(Bool(in.p)), <<CallOf("errPredicate", this.inner)>>, 0)
    [] op \in {"isOk", "isOkAndSync", "contains"} -> Gives(Bool(FALSE))
    [] op = "get" -> ErrGet(this, id)
    [] op = "getErr" -> ErrGetErr(this)
    [] op = "ok" -> ErrOk(this, id)
    [] op = "err" -> ErrErr(this, id)
    [] op = "split" -> ErrSplit(this)
    [] op = "containsErr" -> Gives(Bool(this.inner = in.arg))
    [] op = "throw" ->
         Res(Thrown(ErrThrow(this).raised[1]),
             <<CallOf("thrower", ErrThrow(this).invoked[1])>>, 0)
    [] op = "getOrThrow" -> ErrGetOrThrow(this)
    [] op = "getErrOrThrow" -> ErrGetErrOrThrow(this)
    [] op \in {"getAny", "getErrOrNull"} -> Gives(this.inner)
    [] op \in {"getOrNull", "checkOrNull"} -> Gives(Null)
    [] op \in {"getOr", "mapOrSync", "or"} -> Gives(in.arg)
    [] op \in {"getOrElseSync", "mapOrElseSync"} ->
         Res(Returned(Apply("errMapper", this.inner)),
             <<CallOf("errMapper", this.inner)>>, 0)
    [] op = "orElseSync" -> ErrOrElseSync(this)
    [] op = "checkOrThrow" -> ErrCheckOrThrow(this)
    [] op = "checkErrOrThrow" -> ErrCheckErrOrThrow(this)
    [] op \in {"checkErrOrNull", "clear", "inspect", "inspectSync", "set",
               "and", "andThenSync", "flatten"} -> Gives(this)
    [] op = "clearErr" -> Res(Returned(NewErr(id, Undefined)), <<>>, 1)
    [] op = "inspectErrSync" ->
         Res(Returned(this), <<CallOf("errCallback", this.inner)>>, 0)
    [] op = "setErr" -> Res(Returned(NewErr(id, in.arg)), <<>>, 1)
    [] op \in {"map", "mapSync"} -> ErrMapSync(this, id)
    [] op = "mapErrSync" ->
         Res(Returned(NewErr(id, Apply("errMapper", this.inner))),
             <<CallOf("errMapper", this.inner)>>, 1)

ResultOps ==
  {"isOk", "isOkAndSync", "isErr", "isErrAndSync", "get", "getErr", "getAny",
   "ok", "err", "split", "contains", "containsErr", "throw", "getOrThrow",
   "getErrOrThrow", "getOrNull", "getErrOrNull", "getOr", "getOrElseSync",
   "checkOrThrow", "checkErrOrThrow", "checkOrNull", "checkErrOrNull",
   "clear", "clearErr", "inspect", "inspectSync", "inspectErrSync", "set",
   "setErr", "map", "mapSync", "mapErrSync", "mapOrSync", "mapOrElseSync",
   "and", "andThenSync", "or", "orElseSync", "flatten"}

\* faulty variant: null is wrapped like a value
OptionWrapKeepsNull(inner, id) ==
  IF inner = Undefined THEN NewNone(id) ELSE NewSome(id, inner)
\* Option.wrap: if (inner == null) return new None(); return new Some(inner)
OptionWrap(inner, id) ==
  IF inner \in {Undefined, Null} THEN NewNone(id) ELSE NewSome(id, inner)

\* faulty variant: the fallback error replaces the value
SomeOkOrTakesError(this, error, id) == Res(Returned(NewOk(id, error)), <<>>, 1)
\* Some.okOr: return new Ok(this.inner)
SomeOkOr(this, error, id) == Res(Returned(NewOk(id, this.inner)), <<>>, 1)
\* None.okOr: return new Err(error)
NoneOkOr(this, error, id) == Res(Returned(NewErr(id, error)), <<>>, 1)

\* Some.get / Some.getOrThrow: return this.inner
SomeGet(this) == Gives(this.inner)
\* None.get / None.getOrThrow: throw new NoneError()
NoneGet(this, id) == Res(Thrown(NewNoneError(id)), <<>>, 1)

\* every method of Some
SomeMethod(this, op, in, id) ==
  CASE op = "isSome" -> Gives(Bool(TRUE))
    [] op = "isSomeAndSync" ->
         Res(Returned(Bool(in.p)), <<CallOf("somePredicate", this.inner)>>, 0)
    [] op = "isNone" -> Gives(Bool(FALSE))
    [] op \in {"get", "getOrThrow"} -> SomeGet(this)
    [] op \in {"getOrNull", "getOr", "getOrElseSync"} -> Gives(this.inner)
    [] op = "okOr" -> SomeOkOr(this, in.arg, id)
    [] op \in {"ok", "okOrElseSync"} ->
         Res(Returned(NewOk(id, this.inner)), <<>>, 1)
    [] op = "filterSync" ->
         IF in.p
         THEN Res(Returned(this), <<CallOf("somePredicate", this.inner)>>, 0)
         ELSE Res(Returned(NewNone(id)),
                  <<CallOf("somePredicate", this.inner)>>, 1)
    [] op = "contains" -> Gives(Bool(this.inner = in.arg))
    [] op = "inspectSync" ->
         Res(Returned(this), <<CallOf("someCallback", this.inner)>>, 0)
    [] op \in {"map", "mapSync"} ->
         Res(Returned(NewSome(id, Apply("someMapper", this.inner))),
             <<CallOf("someMapper", this.inner)>>, 1)
    [] op \in {"mapOrSync", "mapOrElseSync", "andThenSync"} ->
         Res(Returned(Apply("someMapper", this.inner)),
             <<CallOf("someMapper", this.inner)>>, 0)
    [] op = "and" -> Gives(in.arg)
    [] op \in {"or", "orElseSync"} -> Gives(this)
    [] op = "xor" ->
         IF in.other.tag = "Some" THEN Res(Returned(NewNone(id)), <<>>, 1)
         ELSE Gives(this)
    [] op = "zip" ->
         IF in.other.tag = "Some"
         THEN Res(Returned(NewSome(id, Pair(this.inner, in.other.inner))),
                  <<>>, 1)
         ELSE Gives(in.other)

\* every method of None
NoneMethod(this, op, in, id) ==
  CASE op \in {"isSome", "isSomeAndSync", "contains"} -> Gives(Bool(FALSE))
    [] op = "isNone" -> Gives(Bool(TRUE))
    [] op \in {"get", "getOrThrow"} -> NoneGet(this, id)
    [] op = "getOrNull" -> Gives(Undefined)
    [] op \in {"getOr", "mapOrSync", "or"} -> Gives(in.arg)
    [] op \in {"getOrElseSync", "mapOrElseSync", "orElseSync"} ->
         Res(Returned(Apply("noneCallback", Undefined)),
             <<CallOf("noneCallback", Undefined)>>, 0)
    [] op = "ok" -> Res(Returned(NewErr(id + 1, NewNoneError(id))), <<>>, 2)
    [] op = "okOr" -> NoneOkOr(this, in.arg, id)
    [] op = "okOrElseSync" ->
         Res(Returned(NewErr(id, Apply("noneCallback", Undefined))),
             <<CallOf("noneCallback", Undefined)>>, 1)
    [] op \in {"filterSync", "inspectSync", "map", "mapSync", "and",
               "andThenSync", "zip"} -> Gives(this)
    [] op = "xor" -> Gives(in.other)

OptionOps ==
  {"isSome", "isSomeAndSync", "isNone", "get", "getOrThrow", "getOrNull",
   "getOr", "getOrElseSync", "ok", "okOr", "okOrElseSync", "filterSync",
   "contains", "inspectSync", "map", "mapSync", "mapOrSync", "mapOrElseSync",
   "and", "andThenSync", "or", "orElseSync", "xor", "zip"}

\* the plain values a method may be given, and the Options given to xor / zip
Args == {Val(1), Val(7)}
Others == {NewSome(0, Val(7)), NewNone(0)}
\* the argument lists a method is called with
InputsOf(op) ==
  IF op \in {"contains", "containsErr", "set", "setErr", "getOr", "mapOrSync",
             "and", "or", "okOr"}
  THEN {Input(a, Undefined, FALSE) : a \in Args}
  ELSE IF op \in {"xor", "zip"}
  THEN {Input(Undefined, o, FALSE) : o \in Others}
  ELSE IF op \in {"isOkAndSync", "isErrAndSync", "isSomeAndSync", "filterSync"}
  THEN {Input(Undefined, Undefined, p) : p \in BOOLEAN}
  ELSE {NoInput}

\* the inner values of the objects constructed first: two plain values and
\* an object
OpInners == Inners \cup {NewError(0)}

Variants == {"Ok", "Err", "Some", "None"}
IsVariant(v) == v.tag \in Variants

\* the call `subject.op(...)`; a returned Ok, Err, Some or None becomes the
\* subject of the next call
Called(r, op, in) ==
  /\ made + r.made <= MaxMade
  /\ made' = made + r.made
  /\ recv' = subject
  /\ opname' = op
  /\ input' = in
  /\ answer' = r.outcome
  /\ fcalls' = r.fcalls
  /\ subject' = IF r.outcome.kind = "return" /\ IsVariant(r.outcome.val)
                THEN r.outcome.val ELSE subject
  /\ UNCHANGED <<unthrowVars, collectVars, leakVars>>

\* `new Ok(v)`, `new Err(v)`, `new Some(v)` or `new None()`
New(v) ==
  /\ subject = Undefined
  /\ subject' \in {NewOk(1, v), NewErr(1, v), NewSome(1, v), NewNone(1)}
  /\ made' = 1
  /\ UNCHANGED <<recv, opname, input, answer, fcalls>>
  /\ UNCHANGED <<unthrowVars, collectVars, leakVars>>

\* `Option.wrap(x)`
Wrap(x) ==
  /\ subject = Undefined
  /\ subject' = OptionWrap(x, 1)
  /\ made' = 1
  /\ recv' = x
  /\ opname' = "wrap"
  /\ input' = NoInput
  /\ answer' = Returned(OptionWrap(x, 1))
  /\ fcalls' = <<>>
  /\ UNCHANGED <<unthrowVars, collectVars, leakVars>>

ResultCall(op, in) ==
  /\ subject.tag \in {"Ok", "Err"}
  /\ Called(IF isOk(subject) THEN OkMethod(subject, op, in, made + 1)
            ELSE ErrMethod(subject, op, in, made + 1), op, in)

OptionCall(op, in) ==
  /\ subject.tag \in {"Some", "None"}
  /\ Called(IF subject.tag = "Some" THEN SomeMethod(subject, op, in, made + 1)
            ELSE NoneMethod(subject, op, in, made + 1), op, in)

OpsInit ==
  /\ subject = Undefined
  /\ made = 0
  /\ recv = Undefined
  /\ opname = "none"
  /\ input = NoInput
  /\ answer = [kind |-> "none"]
  /\ fcalls = <<>>
  \* no unthrow scope is running
  /\ build = "mod"
  /\ mode = "sync"
  /\ st = [s \in Scopes |-> "idle"]
  /\ ref = [s \in Scopes |-> Undefined]
  /\ sig = [s \in Scopes |-> NoSig]
  /\ awaiting = [s \in Scopes |-> FALSE]
  /\ calls = [s \in Scopes |-> 0]
  /\ caught = [s \in Scopes |-> NoSig]
  /\ cbret = [s \in Scopes |-> Undefined]
  /\ out = [s \in Scopes |-> Undefined]
  /\ last = NoStep
  \* no collection is running
  /\ fn = "all"
  /\ source = <<>>
  /\ runs = 0
  /\ pc = "idle"
  /\ pulled = 0
  /\ array = <<>>
  /\ cur = [done |-> TRUE, value |-> Undefined]
  /\ created = 0
  /\ ret = NoResult
  /\ prev = NoResult
  \* no instance of the leak-detector build exists
  /\ debug = FALSE
  /\ objs = <<>>
  /\ timers = {}
  /\ panics = {}
  /\ lastop = [op |-> "none"]

OpsNext ==
  \/ \E v \in OpInners : New(v)
  \/ \E x \in OpInners \cup {Undefined, Null} : Wrap(x)
  \/ \E op \in ResultOps : \E in \in InputsOf(op) : ResultCall(op, in)
  \/ \E op \in OptionOps : \E in \in InputsOf(op) : OptionCall(op, in)

SpecOps == OpsInit /\ [][OpsNext]_vars

\* a method has been called on an Ok / Err / Some / None
CalledOn(tag, ops) == recv.tag = tag /\ opname \in ops
Returns(v) == answer = Returned(v)

\* ------------------------------------------------------------------- C11
\* C11: Ok(x).mapSync(f) is an Ok whose get() is f(x) and f was invoked
\* exactly once, with x; Err(e).mapSync(f) and Err(e).map(f) return the Err
\* they were called on and never invoke f.
C11_MapAppliesOnOkOnly ==
  /\ CalledOn("Ok", {"mapSync"}) =>
       /\ answer.kind = "return"
       /\ isOk(answer.val)
       /\ OkGet(answer.val).outcome = Returned(Apply("okMapper", recv.inner))
       /\ fcalls = <<CallOf("okMapper", recv.inner)>>
  /\ CalledOn("Err", {"map", "mapSync"}) => Returns(recv) /\ fcalls = <<>>

C11_Witness ==
  /\ CalledOn("Ok", {"mapSync"})
  /\ Len(fcalls) = 1
  /\ answer.val.id # recv.id

\* ------------------------------------------------------------------- C12
\* C12: Ok(v).ok() is a Some with inner v and Ok(v).err() is a None;
\* Err(e).ok() is a None and Err(e).err() is a Some with inner e.
C12_OkErrDuality ==
  /\ CalledOn("Ok", {"ok"}) =>
       answer.kind = "return" /\ answer.val.tag = "Some"
         /\ answer.val.inner = recv.inner
  /\ CalledOn("Ok", {"err"}) => answer.kind = "return" /\ answer.val.tag = "None"
  /\ CalledOn("Err", {"ok"}) => answer.kind = "return" /\ answer.val.tag = "None"
  /\ CalledOn("Err", {"err"}) =>
       answer.kind = "return" /\ answer.val.tag = "Some"
         /\ answer.val.inner = recv.inner

C12_Witness == CalledOn("Err", {"err"}) /\ subject.tag = "Some"

\* ------------------------------------------------------------------- C13
\* C13: Option.wrap(x) is a None exactly when x is undefined or null and a
\* Some with inner x otherwise; Some(v).okOr(e) is an Ok with inner v and
\* None.okOr(e) is an Err with inner e.
C13_WrapThenOkOr ==
  /\ opname = "wrap" =>
       /\ answer.val.tag = "None" <=> recv \in {Undefined, Null}
       /\ recv \notin {Undefined, Null} =>
            answer.val.tag = "Some" /\ answer.val.inner = recv
  /\ CalledOn("Some", {"okOr"}) =>
       answer.kind = "return" /\ isOk(answer.val)
         /\ answer.val.inner = recv.inner
  /\ CalledOn("None", {"okOr"}) =>
       answer.kind = "return" /\ isErr(answer.val)
         /\ answer.val.inner = input.arg

C13_Witness == CalledOn("None", {"okOr"}) /\ isErr(subject) /\ made = 2

\* ------------------------------------------------------------------- C14
\* a failure carries e when it is e or names e as its cause
Carries(x, e) == x = e \/ ("cause" \in DOMAIN x /\ x.cause = e)
Generic(x) == x.tag \in {"Error", "NoneError"} /\ "cause" \notin DOMAIN x

\* Ok(v) and Some(v) answer v to get() and getOrThrow(); None raises a
\* generic failure
MatchingGetReturns ==
  /\ CalledOn("Ok", {"get", "getOrThrow"}) => Returns(recv.inner)
  /\ CalledOn("Some", {"get", "getOrThrow"}) => Returns(recv.inner)
  /\ CalledOn("None", {"get", "getOrThrow"}) =>
       answer.kind = "throw" /\ Generic(answer.val)

\* C14 as stated: get() and getOrThrow() of Err(e) raise a failure that
\* carries e; None raises a generic failure; Ok(v) and Some(v) return v.
C14_ErrGetCarriesInner ==
  /\ CalledOn("Err", {"get", "getOrThrow"}) =>
       answer.kind = "throw" /\ Carries(answer.val, recv.inner)
  /\ MatchingGetReturns

\* C14 amended: getOrThrow() of Err(e) raises e itself, get() of Err(e)
\* raises a new generic Error that does not carry e; None raises a generic
\* failure; Ok(v) and Some(v) return v.
C14_ErrGetIsGeneric ==
  /\ CalledOn("Err", {"getOrThrow"}) => answer = Thrown(recv.inner)
  /\ CalledOn("Err", {"get"}) =>
       answer.kind = "throw" /\ Generic(answer.val)
         /\ ~Carries(answer.val, recv.inner)
  /\ MatchingGetReturns

C14_Witness == CalledOn("Err", {"get"}) /\ answer.kind = "throw"

\* ------------------------------------------------------------------- C15
\* the methods that raise, by the variant they are called on
RaisingOps(tag) ==
  CASE tag = "Ok" -> {"getErr", "getErrOrThrow", "checkErrOrThrow"}
    [] tag = "Err" -> {"get", "getOrThrow", "checkOrThrow", "throw"}
    [] tag = "None" -> {"get", "getOrThrow"}
    [] OTHER -> {}
AfterCall == IsVariant(recv) /\ opname \notin {"none", "wrap"}

\* C15 as stated: a method raises only if it is get / getOrThrow (or their
\* Err-side twins) called on the non-matching variant.
C15_OnlyGetRaises ==
  AfterCall /\ answer.kind = "throw" =>
    opname \in {"get", "getErr", "getOrThrow", "getErrOrThrow"}

\* C15 amended: a method raises exactly when it is get, getOrThrow,
\* checkOrThrow or throw on an Err, getErr, getErrOrThrow or checkErrOrThrow
\* on an Ok, or get / getOrThrow on a None; every other call returns.
C15_RaisingOpsAreTheThrowFamily ==
  AfterCall =>
    /\ answer.kind \in {"return", "throw"}
    /\ answer.kind = "throw" <=> opname \in RaisingOps(recv.tag)

C15_Witness == CalledOn("Err", {"checkOrThrow"}) /\ answer.kind = "throw"

\* ------------------------------------------------------------------- C16
\* C16: Ok(v).get() is v, Ok(v).split() is [v, undefined], Err(v).split() is
\* [undefined, v], and the Some made by Ok(v).ok() or Err(v).err() holds v
\* itself.
C16_InnerIdentityPreserved ==
  /\ CalledOn("Ok", {"get"}) => Returns(recv.inner)
  /\ CalledOn("Ok", {"split"}) => Returns(Pair(recv.inner, Undefined))
  /\ CalledOn("Err", {"split"}) => Returns(Pair(Undefined, recv.inner))
  /\ (CalledOn("Ok", {"ok"}) \/ CalledOn("Err", {"err"})) =>
       answer.kind = "return" /\ SomeGet(answer.val) = Gives(recv.inner)

C16_Witness ==
  /\ CalledOn("Ok", {"split"})
  /\ recv.inner.tag = "Error"
  /\ answer.val.items[1] = recv.inner

\* ======================================================================
\* The leak detector: the Ok of src/mods/result/ok.ts (second class of the
\* file) and the Err of src/unnamed/part_002.  A constructor run while the
\* flag is set schedules a timer whose callback throws a Panic; ignore()
\* clears it.  The Err reads the flag as Debug.debug, the Ok as Result.debug:
\* one flag here.  Time is abstracted: a scheduled timer may elapse at any
\* moment after it was set.
\* ======================================================================
\* how many Ok / Err instances one run may construct
MaxObjs == 2

\* `export let debug = false`
InitialDebug == FALSE

\* the handle setTimeout returns; it owns the callback's captured `error`
Timeout(id, error) == [tag |-> "timeout", id |-> id, error |-> error]
\* `new Panic(message, { cause })`
NewPanic(message, cause) == [tag |-> "Panic", message |-> message, cause |-> cause]

\* an instance: the object and its field #timeout
Instance(self, timeout) == [self |-> self, timeout |-> timeout]

\* what a constructor does: the instance and the timers it schedules
Built(instance, scheduled) == [obj |-> instance, scheduled |-> scheduled]

\* Ok.constructor: if (!Result.debug) return; const error = new Panic(
\* `Unhandled`, { cause: this }); this.#timeout = setTimeout(() => { throw
\* error }, 1000)
OkConstructor(id, inner, flag) ==
  LET this == NewOk(id, inner)
      t == Timeout(id, NewPanic("Unhandled", this))
  IN IF ~flag THEN Built(Instance(this, Undefined), {})
     ELSE Built(Instance(this, t), {t})

\* faulty variant: the timer is scheduled whatever the flag says
ErrConstructorAlways(id, inner, flag) ==
  LET this == NewErr(id, inner)
      t == Timeout(id, NewPanic("Unhandled result", this))
  IN Built(Instance(this, t), {t})
\* Err.constructor: if (!Debug.debug) return; const error = new Panic(
\* `Unhandled result`, { cause: this }); this.#timeout = setTimeout(async ()
\* => { throw error }, 1000)
ErrConstructor(id, inner, flag) ==
  LET this == NewErr(id, inner)
      t == Timeout(id, NewPanic("Unhandled result", this))
  IN IF ~flag THEN Built(Instance(this, Undefined), {})
     ELSE Built(Instance(this, t), {t})

\* faulty variant: the callback returns without raising
timerCallbackSilent(t) == Returned(Undefined)
\* the callback given to setTimeout: throw error
timerCallback(t) == Thrown(t.error)

\* what ignore() leaves: the instance and the runtime's timers
Ignored(instance, scheduled) == [obj |-> instance, timers |-> scheduled]
\* faulty variant: the field is reset but the timer is left scheduled
ignoreKeepsTimer(obj, scheduled) ==
  IF obj.timeout = Undefined THEN Ignored(obj, scheduled)
  ELSE Ignored([obj EXCEPT !.timeout = Undefined], scheduled)
\* ignore: if (!this.#timeout) return this; clearTimeout(this.#timeout);
\* this.#timeout = undefined; return this
ignore(obj, scheduled) ==
  IF obj.timeout = Undefined THEN Ignored(obj, scheduled)
  ELSE Ignored([obj EXCEPT !.timeout = Undefined], scheduled \ {obj.timeout})

\* faulty variant: no method calls this.ignore()
CallsIgnoreNever(kind, op) == FALSE
\* the methods whose body starts with `this.ignore()`
CallsIgnore(kind, op) ==
  IF kind = "Ok" THEN op \in {"get", "unwrap", "ok", "err", "map", "mapSync"}
  ELSE op \in {"get", "unwrap", "ok", "err"}

\* the mapper handed to Ok.map / Ok.mapSync: it answers the same plain value
\* for every inner value
okMapper(x) == Val(1)

\* what the method gives back: the outcome and the Ok it constructs, if any
DebugOkMethod(this, op, id) ==
  CASE op \in {"get", "unwrap"} -> Gives(this.inner)
    [] op = "ok" -> Gives(NewSome(0, this.inner))
    [] op = "err" -> Gives(NewNone(0))
    [] op \in {"map", "mapSync"} ->
         Res(Returned(NewOk(id, okMapper(this.inner))),
             <<CallOf("okMapper", this.inner)>>, 1)
    [] op \in {"inspect", "inspectSync"} ->
         Res(Returned(this), <<CallOf("okCallback", this.inner)>>, 0)
    [] op = "isOk" -> Gives(Bool(TRUE))
DebugErrMethod(this, op, id) ==
  CASE op = "get" -> Gives(this.inner)
    [] op = "unwrap" -> Raises(NewPanic(Undefined, this.inner))
    [] op = "ok" -> Gives(NewNone(0))
    [] op = "err" -> Gives(NewSome(0, this.inner))
    [] op \in {"map", "mapSync", "inspect", "inspectSync"} -> Gives(this)
    [] op = "isOk" -> Gives(Bool(FALSE))

Consuming ==
  {"get", "unwrap", "ok", "err", "map", "mapSync", "inspect", "inspectSync"}
DebugOps == Consuming \cup {"isOk"}

Ids == 1..MaxObjs
Exists(i) == i \in DOMAIN objs
\* the timer of instance i is scheduled and has neither elapsed nor been
\* cleared
Pending(i) == Exists(i) /\ \E t \in timers : t.id = i
\* the diagnostic of instance i has fired
Fired(i) ==
  /\ Exists(i)
  /\ NewPanic(IF isOk(objs[i].self) THEN "Unhandled" ELSE "Unhandled result",
              objs[i].self) \in panics

\* `Result.debug = b`
SetDebug(b) ==
  /\ debug # b
  /\ debug' = b
  /\ lastop' = [op |-> "setDebug"]
  /\ UNCHANGED <<objs, timers, panics>>
  /\ UNCHANGED <<unthrowVars, collectVars, opsVars>>

\* `new Ok(v)` / `new Err(v)`
Construct(kind, v) ==
  /\ Len(objs) < MaxObjs
  /\ LET b == IF kind = "Ok" THEN OkConstructor(Len(objs) + 1, v, debug)
              ELSE ErrConstructor(Len(objs) + 1, v, debug)
     IN /\ objs' = Append(objs, b.obj)
        /\ timers' = timers \cup b.scheduled
  /\ lastop' = [op |-> "new", on |-> Len(objs) + 1, flag |-> debug]
  /\ UNCHANGED <<debug, panics>>
  /\ UNCHANGED <<unthrowVars, collectVars, opsVars>>

\* `objs[i].ignore()`
Ignore(i) ==
  /\ Exists(i)
  /\ LET r == ignore(objs[i], timers) IN
       /\ objs' = [objs EXCEPT ![i] = r.obj]
       /\ timers' = r.timers
       /\ lastop' = [op |-> "ignore", on |-> i, pending |-> Pending(i),
                     had |-> objs[i].timeout # Undefined, ret |-> r.obj.self,
                     changed |-> r.timers # timers
                                   \/ r.obj.timeout # objs[i].timeout]
  /\ UNCHANGED <<debug, panics>>
  /\ UNCHANGED <<unthrowVars, collectVars, opsVars>>

\* `objs[i].op(...)` for the other methods; Ok.map / Ok.mapSync construct the
\* Ok they return
Method(i, op) ==
  /\ Exists(i)
  /\ LET this == objs[i].self
         r == IF isOk(this) THEN DebugOkMethod(this, op, Len(objs) + 1)
              ELSE DebugErrMethod(this, op, Len(objs) + 1)
         c == IF CallsIgnore(this.tag, op) THEN ignore(objs[i], timers)
              ELSE Ignored(objs[i], timers)
         b == OkConstructor(Len(objs) + 1, r.outcome.val.inner, debug)
     IN /\ Len(objs) + r.made <= MaxObjs
        /\ objs' = IF r.made = 1 THEN Append([objs EXCEPT ![i] = c.obj], b.obj)
                   ELSE [objs EXCEPT ![i] = c.obj]
        /\ timers' = IF r.made = 1 THEN c.timers \cup b.scheduled
                     ELSE c.timers
        /\ lastop' = [op |-> op, on |-> i, pending |-> Pending(i),
                      kind |-> r.outcome.kind, ret |-> r.outcome.val]
  /\ UNCHANGED <<debug, panics>>
  /\ UNCHANGED <<unthrowVars, collectVars, opsVars>>

\* the delay of a scheduled timer elapses: the runtime removes it and runs
\* its callback
Fire(i) ==
  /\ \E t \in timers :
       /\ t.id = i
       /\ timers' = timers \ {t}
       /\ panics' = IF timerCallback(t).kind = "throw"
                    THEN panics \cup {timerCallback(t).val} ELSE panics
  /\ UNCHANGED <<debug, objs, lastop>>
  /\ UNCHANGED <<unthrowVars, collectVars, opsVars>>

LeakInit ==
  /\ debug = InitialDebug
  /\ objs = <<>>
  /\ timers = {}
  /\ panics = {}
  /\ lastop = [op |-> "none"]
  \* no unthrow scope is running
  /\ build = "legacy"
  /\ mode = "sync"
  /\ st = [s \in Scopes |-> "idle"]
  /\ ref = [s \in Scopes |-> Undefined]
  /\ sig = [s \in Scopes |-> NoSig]
  /\ awaiting = [s \in Scopes |-> FALSE]
  /\ calls = [s \in Scopes |-> 0]
  /\ caught = [s \in Scopes |-> NoSig]
  /\ cbret = [s \in Scopes |-> Undefined]
  /\ out = [s \in Scopes |-> Undefined]
  /\ last = NoStep
  \* no collection is running
  /\ fn = "all"
  /\ source = <<>>
  /\ runs = 0
  /\ pc = "idle"
  /\ pulled = 0
  /\ array = <<>>
  /\ cur = [done |-> TRUE, value |-> Undefined]
  /\ created = 0
  /\ ret = NoResult
  /\ prev = NoResult
  \* no method call has been made
  /\ subject = Undefined
  /\ made = 0
  /\ recv = Undefined
  /\ opname = "none"
  /\ input = NoInput
  /\ answer = [kind |-> "none"]
  /\ fcalls = <<>>

LeakNext ==
  \/ \E b \in BOOLEAN : SetDebug(b)
  \/ \E kind \in {"Ok", "Err"} : Construct(kind, Val(1))
  \/ \E i \in Ids : Ignore(i)
  \/ \E i \in Ids : \E op \in DebugOps : Method(i, op)
  \/ \E i \in Ids : Fire(i)

SpecLeak == LeakInit /\ [][LeakNext]_vars

\* a timer that stays scheduled elapses: the event loop runs every timer
\* whose delay (1000 ms) has passed
FairSpecLeak == SpecLeak /\ \A i \in Ids : WF_vars(Fire(i))

\* instance i has no timer: its slot is empty, nothing is scheduled for it
\* and its diagnostic has not fired
Quiet(i) ==
  Exists(i) /\ objs[i].timeout = Undefined /\ ~Pending(i) /\ ~Fired(i)
\* an instance without a timer never gets one and never fires, whatever is
\* called afterwards
QuietForGood == [][\A i \in Ids : Quiet(i) => Quiet(i)']_vars

\* ------------------------------------------------------------------- C17
\* a consuming operation or ignore() is being called on instance i
Touched(i) == lastop.op \in Consuming \cup {"ignore"} /\ lastop.on = i

\* C17: an Ok or Err constructed while the flag is set, on which neither a
\* consuming operation nor ignore() is ever called, eventually has its timer
\* callback raise the "unhandled" Panic whose cause is that instance.
C17_UnhandledEventuallyFires ==
  \A i \in Ids : Pending(i) ~> (Fired(i) \/ Touched(i))

C17_Witness ==
  \E i \in Ids :
    /\ Fired(i)
    /\ isErr(objs[i].self)
    /\ lastop = [op |-> "new", on |-> i, flag |-> TRUE]

\* ------------------------------------------------------------------- C18
\* C18: ignore() called on an instance whose timer has not elapsed leaves it
\* without a timer, and from then on its diagnostic never fires, whatever is
\* called on it; ignore() returns the instance it was called on.
C18_IgnoreCancelsForGood ==
  /\ [](lastop.op = "ignore" =>
          /\ lastop.ret = objs[lastop.on].self
          /\ lastop.pending => Quiet(lastop.on))
  /\ QuietForGood

C18_Witness ==
  /\ lastop.op = "ignore"
  /\ lastop.pending
  /\ Quiet(lastop.on)
  /\ debug

\* ------------------------------------------------------------------- C19
AfterConsuming == lastop.op \in Consuming /\ lastop.pending

\* C19 as stated: get, unwrap, ok, err, map, mapSync, inspect and
\* inspectSync, called on an Ok or Err whose diagnostic is pending, cancel it.
C19_EveryConsumingOpCancels == AfterConsuming => Quiet(lastop.on)

\* C19 amended: get, unwrap, ok and err on an Ok or Err, and map / mapSync on
\* an Ok, cancel the pending diagnostic; inspect / inspectSync on either and
\* map / mapSync on an Err return the instance they were called on and leave
\* its timer in place.
C19_CancelledUnlessReturnsThis ==
  AfterConsuming =>
    LET i == lastop.on
        this == objs[i].self
        returnsThis == \/ lastop.op \in {"inspect", "inspectSync"}
                       \/ isErr(this) /\ lastop.op \in {"map", "mapSync"}
    IN IF returnsThis
       THEN /\ lastop.ret = this
            /\ objs[i].timeout # Undefined
            /\ Pending(i) \/ Fired(i)
       ELSE Quiet(i)

C19_Witness ==
  /\ AfterConsuming
  /\ lastop.op = "mapSync"
  /\ isOk(objs[lastop.on].self)
  /\ Quiet(lastop.on)
  /\ Pending(Len(objs))

\* ------------------------------------------------------------------- C20
\* C20: the flag is off before anything sets it; an instance constructed
\* while it is off has no timer, so no diagnostic ever fires for it, also
\* when the flag is set later, and ignore() on an instance without a timer
\* changes nothing.
C20_NoTimerWhenDisabled ==
  /\ [](lastop.op = "none" => ~debug)
  /\ [](lastop.op = "new" /\ ~lastop.flag => Quiet(lastop.on))
  /\ QuietForGood
  /\ [](lastop.op = "ignore" /\ ~lastop.had => ~lastop.changed)

C20_Witness ==
  /\ debug
  /\ lastop.op = "ignore"
  /\ ~lastop.had
  /\ Quiet(lastop.on)
  /\ \E j \in Ids : Fired(j)

\* ======================================================================
\* Combinators with callbacks that may return a promise or raise, their
\* asynchronous forms, and the catch-and-wrap constructors
\* Result.runAndWrapSync and Result.rewrap.
\* ======================================================================
\* a settled promise
NewPromise(state, v) == [tag |-> "promise", state |-> state, value |-> v]
\* the exception a raising callback throws
CallbackError == NewError(9)
\* how a callback behaves: it answers a plain value, answers a promise of
\* that value (it suspends), or raises
Behaviours == {"plain", "suspends", "raises"}

\* the outcome of the invocation `cb(x)`
Run(cb, x, beh) ==
  CASE beh = "plain" -> Returned(Apply(cb, x))
    [] beh = "suspends" -> Returned(NewPromise("fulfilled", Apply(cb, x)))
    [] beh = "raises" -> Thrown(CallbackError)

\* `await e`, given the outcome of evaluating e
AwaitOf(o) ==
  IF o.kind = "throw" THEN o
  ELSE IF o.val.tag # "promise" THEN o
  ELSE IF o.val.state = "fulfilled" THEN Returned(o.val.value)
  ELSE Thrown(o.val.value)
\* what calling an `async` method gives, given the outcome of its body
AsyncReturn(o) ==
  IF AwaitOf(o).kind = "throw"
  THEN Returned(NewPromise("rejected", AwaitOf(o).val))
  ELSE Returned(NewPromise("fulfilled", AwaitOf(o).val))

\* a statement after the invocation runs only if the invocation returned
AndThenBuild(o, built) == IF o.kind = "throw" THEN o ELSE Returned(built)
Built1(o) == IF o.kind = "throw" THEN 0 ELSE 1

\* faulty variant: the mapper's exception is caught and wrapped in an Err
OkMapSyncRunCatches(this, beh, id) ==
  LET o == Run("okMapper", this.inner, beh) IN
  Res(IF o.kind = "throw" THEN Returned(NewErr(id, o.val))
      ELSE Returned(NewOk(id, o.val)),
      <<CallOf("okMapper", this.inner)>>, 1)
\* Ok.mapSync: return new Ok<U>(okMapper(this.inner))
OkMapSyncRun(this, beh, id) ==
  LET o == Run("okMapper", this.inner, beh) IN
  Res(AndThenBuild(o, NewOk(id, o.val)),
      <<CallOf("okMapper", this.inner)>>, Built1(o))

\* faulty variant: the Ok holds what the mapper answered, not what awaiting
\* it gives, and the mapper runs a second time
OkMapRunTwice(this, beh, id) ==
  LET o == Run("okMapper", this.inner, beh) IN
  Res(AsyncReturn(AndThenBuild(o, NewOk(id, Apply("okMapper", o.val)))),
      <<CallOf("okMapper", this.inner), CallOf("okMapper", o.val)>>,
      Built1(o))
\* Ok.map: async; return new Ok<U>(await okMapper(this.inner))
OkMapRun(this, beh, id) ==
  LET o == AwaitOf(Run("okMapper", this.inner, beh)) IN
  Res(AsyncReturn(AndThenBuild(o, NewOk(id, o.val))),
      <<CallOf("okMapper", this.inner)>>, Built1(o))

\* a method that only returns the callback's answer: return cb(this.inner)
ReturnsCallback(cb, x, beh) == Res(Run(cb, x, beh), <<CallOf(cb, x)>>, 0)
\* async; return await cb(this.inner)
ReturnsAwaited(cb, x, beh) ==
  Res(AsyncReturn(AwaitOf(Run(cb, x, beh))), <<CallOf(cb, x)>>, 0)

\* the synchronous combinators of Ok, Err, Some and None that take a callback
SyncCombinators ==
  {"mapSync", "mapErrSync", "andThenSync", "orElseSync", "getOrElseSync",
   "inspectSync", "mapOrSync", "mapOrElseSync"}
SyncMethod(this, op, arg, beh, id) ==
  CASE this.tag = "Ok" ->
         (CASE op = "mapSync" -> OkMapSyncRun(this, beh, id)
           [] op \in {"andThenSync", "mapOrSync", "mapOrElseSync"} ->
                ReturnsCallback("okMapper", this.inner, beh)
           [] op = "inspectSync" ->
                LET o == Run("okCallback", this.inner, beh) IN
                Res(AndThenBuild(o, this),
                    <<CallOf("okCallback", this.inner)>>, 0)
           [] op \in {"mapErrSync", "orElseSync"} -> Gives(this)
           [] op = "getOrElseSync" -> Gives(this.inner))
    [] this.tag = "Err" ->
         (CASE op = "mapErrSync" ->
                LET o == Run("errMapper", this.inner, beh) IN
                Res(AndThenBuild(o, NewErr(id, o.val)),
                    <<CallOf("errMapper", this.inner)>>, Built1(o))
           [] op \in {"orElseSync", "getOrElseSync", "mapOrElseSync"} ->
                ReturnsCallback("errMapper", this.inner, beh)
           [] op \in {"mapSync", "andThenSync", "inspectSync"} -> Gives(this)
           [] op = "mapOrSync" -> Gives(arg))
    [] this.tag = "Some" ->
         (CASE op = "mapSync" ->
                LET o == Run("someMapper", this.inner, beh) IN
                Res(AndThenBuild(o, NewSome(id, o.val)),
                    <<CallOf("someMapper", this.inner)>>, Built1(o))
           [] op \in {"andThenSync", "mapOrSync", "mapOrElseSync"} ->
                ReturnsCallback("someMapper", this.inner, beh)
           [] op = "inspectSync" ->
                LET o == Run("someCallback", this.inner, beh) IN
                Res(AndThenBuild(o, this),
                    <<CallOf("someCallback", this.inner)>>, 0)
           [] op = "orElseSync" -> Gives(this)
           [] op = "getOrElseSync" -> Gives(this.inner))
    [] this.tag = "None" ->
         (CASE op \in {"orElseSync", "getOrElseSync", "mapOrElseSync"} ->
                ReturnsCallback("noneCallback", Undefined, beh)
           [] op \in {"mapSync", "andThenSync", "inspectSync"} -> Gives(this)
           [] op = "mapOrSync" -> Gives(arg))

\* the suspending forms; a method declared without `async` returns its value
\* directly
AsyncCombinators ==
  {"map", "andThen", "mapOr", "mapOrElse", "getOrElse", "orElse"}
AsyncMethod(this, op, arg, beh, id) ==
  CASE this.tag = "Ok" ->
         (CASE op = "map" -> OkMapRun(this, beh, id)
           [] op \in {"andThen", "mapOr", "mapOrElse"} ->
                ReturnsAwaited("okMapper", this.inner, beh)
           [] op = "orElse" -> Gives(this)
           [] op = "getOrElse" -> Gives(this.inner))
    [] this.tag = "Err" ->
         (CASE op \in {"orElse", "getOrElse", "mapOrElse"} ->
                ReturnsAwaited("errMapper", this.inner, beh)
           [] op \in {"map", "andThen"} -> Gives(this)
           [] op = "mapOr" -> Gives(arg))
    [] this.tag = "Some" ->
         (CASE op = "map" ->
                LET o == AwaitOf(Run("someMapper", this.inner, beh)) IN
                Res(AsyncReturn(AndThenBuild(o, NewSome(id, o.val))),
                    <<CallOf("someMapper", this.inner)>>, Built1(o))
           [] op \in {"andThen", "mapOr", "mapOrElse"} ->
                ReturnsAwaited("someMapper", this.inner, beh)
           [] op = "orElse" -> Res(AsyncReturn(Returned(this)), <<>>, 0)
           [] op = "getOrElse" ->
                Res(AsyncReturn(Returned(this.inner)), <<>>, 0))
    [] this.tag = "None" ->
         (CASE op \in {"orElse", "getOrElse", "mapOrElse"} ->
                ReturnsAwaited("noneCallback", Undefined, beh)
           [] op \in {"map", "andThen"} -> Gives(this)
           [] op = "mapOr" -> Gives(arg))

\* the *Sync form that matches a suspending form
SyncTwin(op) ==
  CASE op = "map" -> "mapSync"
    [] op = "andThen" -> "andThenSync"
    [] op = "mapOr" -> "mapOrSync"
    [] op = "mapOrElse" -> "mapOrElseSync"
    [] op = "getOrElse" -> "getOrElseSync"
    [] op = "orElse" -> "orElseSync"

\* faulty variant: the exception leaves runAndWrapSync
runAndWrapSyncRethrows(o, id) ==
  IF o.kind = "return" THEN Returned(NewOk(id, o.val)) ELSE o
\* Result.runAndWrapSync: try { return new Ok(callback()) } catch (e) {
\* return new Err(e) }, given the callback's outcome
runAndWrapSync(o, id) ==
  IF o.kind = "return" THEN Returned(NewOk(id, o.val))
  ELSE Returned(NewErr(id, o.val))

\* wrapper.getOrThrow() for the wrappers of this library
getOrThrow(wrapper, id) ==
  CASE wrapper.tag = "Ok" -> OkGetOrThrow(wrapper).outcome
    [] wrapper.tag = "Err" -> ErrGetOrThrow(wrapper).outcome
    [] wrapper.tag = "Some" -> SomeGet(wrapper).outcome
    [] wrapper.tag = "None" -> NoneGet(wrapper, id).outcome
\* Result.rewrap: try { return new Ok(wrapper.getOrThrow()) } catch (error) {
\* return new Err(error) }
rewrap(wrapper, id) ==
  LET o == getOrThrow(wrapper, id + 1) IN
  IF o.kind = "return" THEN Returned(NewOk(id, o.val))
  ELSE Returned(NewErr(id, o.val))

\* the receivers the calls are made on
Receivers ==
  {NewOk(1, v) : v \in OpInners} \cup {NewErr(1, v) : v \in OpInners}
    \cup {NewSome(1, v) : v \in OpInners} \cup {NewNone(1)}
CallInput(arg, beh) == [tag |-> "call", arg |-> arg, beh |-> beh]

\* `this.op(...)` with a callback of the given behaviour
Performed(this, op, arg, beh, r) ==
  /\ subject' = this
  /\ recv' = this
  /\ opname' = op
  /\ input' = CallInput(arg, beh)
  /\ answer' = r.outcome
  /\ fcalls' = r.fcalls
  /\ made' = 1 + r.made
  /\ UNCHANGED <<unthrowVars, collectVars, leakVars>>

\* the combinators a receiver has: Some and None have no mapErrSync
Has(this, op) == op = "mapErrSync" => this.tag \in {"Ok", "Err"}

SyncCall(this, op, arg, beh) ==
  /\ Has(this, op)
  /\ Performed(this, op, arg, beh, SyncMethod(this, op, arg, beh, 2))

AsyncCall(this, op, arg, beh) ==
  /\ op \in AsyncCombinators
  /\ Performed(this, op, arg, beh, AsyncMethod(this, op, arg, beh, 2))

\* `Result.runAndWrapSync(callback)`
RunAndWrapSync(beh) ==
  /\ beh \in Behaviours
  /\ Performed(Undefined, "runAndWrapSync", Undefined, beh,
               Res(runAndWrapSync(Run("callback", Undefined, beh), 2),
                   <<CallOf("callback", Undefined)>>, 1))

\* `Result.rewrap(wrapper)`
Rewrap(wrapper) ==
  /\ wrapper \in Receivers
  /\ Performed(wrapper, "rewrap", Undefined, "plain",
               Res(rewrap(wrapper, 2), <<>>, 1))

CallbacksInit ==
  /\ subject = Undefined
  /\ made = 0
  /\ recv = Undefined
  /\ opname = "none"
  /\ input = NoInput
  /\ answer = [kind |-> "none"]
  /\ fcalls = <<>>
  \* no unthrow scope is running
  /\ build = "mod"
  /\ mode = "sync"
  /\ st = [s \in Scopes |-> "idle"]
  /\ ref = [s \in Scopes |-> Undefined]
  /\ sig = [s \in Scopes |-> NoSig]
  /\ awaiting = [s \in Scopes |-> FALSE]
  /\ calls = [s \in Scopes |-> 0]
  /\ caught = [s \in Scopes |-> NoSig]
  /\ cbret = [s \in Scopes |-> Undefined]
  /\ out = [s \in Scopes |-> Undefined]
  /\ last = NoStep
  \* no collection is running
  /\ fn = "all"
  /\ source = <<>>
  /\ runs = 0
  /\ pc = "idle"
  /\ pulled = 0
  /\ array = <<>>
  /\ cur = [done |-> TRUE, value |-> Undefined]
  /\ created = 0
  /\ ret = NoResult
  /\ prev = NoResult
  \* no instance of the leak-detector build exists
  /\ debug = FALSE
  /\ objs = <<>>
  /\ timers = {}
  /\ panics = {}
  /\ lastop = [op |-> "none"]

CallbacksNext ==
  \/ \E this \in Receivers : \E op \in SyncCombinators : \E arg \in Args :
       \E beh \in Behaviours : SyncCall(this, op, arg, beh)
  \/ \E this \in Receivers : \E op \in AsyncCombinators : \E arg \in Args :
       \E beh \in Behaviours : AsyncCall(this, op, arg, beh)
  \/ \E beh \in Behaviours : RunAndWrapSync(beh)
  \/ \E wrapper \in Receivers : Rewrap(wrapper)

SpecCallbacks == CallbacksInit /\ [][CallbacksNext]_vars

\* an asynchronous combinator was called with a mapper that does not suspend
AfterPlainAsync == opname \in AsyncCombinators /\ input.beh = "plain"
\* C21: for a mapper that answers a plain value, awaiting what the suspending
\* form (map, andThen, mapOr, mapOrElse, getOrElse, orElse) returns delivers
\* exactly what the matching *Sync form returns on the same receiver: the same
\* tag and inner value, and the unchanged receiver on the non-matching tag.
C21_AsyncAgreesWithSync ==
  AfterPlainAsync =>
    /\ AwaitOf(answer) =
         SyncMethod(recv, SyncTwin(opname), input.arg, "plain", 2).outcome
    /\ (recv.tag \in {"Ok", "Some"} /\ opname = "map") =>
         /\ AwaitOf(answer).val.tag = recv.tag
         /\ AwaitOf(answer).val.inner = Apply(fcalls[1].cb, recv.inner)
    /\ (recv.tag \in {"Err", "None"} /\ opname \in {"map", "andThen"}) =>
         AwaitOf(answer) = Returned(recv)
    /\ (recv.tag \in {"Ok", "Some"} /\ opname = "orElse") =>
         AwaitOf(answer) = Returned(recv)
C21_Witness ==
  /\ AfterPlainAsync
  /\ opname = "map"
  /\ recv.tag = "Ok"
  /\ answer.val.tag = "promise"
  /\ answer.val.value.tag = "Ok"
  /\ Len(fcalls) = 1

\* a synchronous combinator invoked a callback that raised
CallbackRaised ==
  /\ opname \in {"mapSync", "mapErrSync", "andThenSync", "orElseSync",
                 "getOrElseSync", "inspectSync"}
  /\ input.beh = "raises"
  /\ fcalls # <<>>
\* C22: when the callback given to mapSync, mapErrSync, andThenSync,
\* orElseSync, getOrElseSync or inspectSync raises, the combinator raises that
\* same exception: it returns nothing and constructs no Result around it.
C22_CombinatorsNeverCatch ==
  CallbackRaised => (answer = Thrown(CallbackError) /\ made = 1)
C22_Witness ==
  /\ CallbackRaised
  /\ opname = "mapSync"
  /\ recv.tag = "Ok"
  /\ answer.kind = "throw"

Chained(tag, op) == CalledOn(tag, {op}) /\ input.tag = "input"
\* C25: chaining follows the table: Ok.and(v) returns v and Err.and(v) the
\* receiver; Ok.or(v) returns the receiver and Err.or(v) returns v;
\* Ok(x).andThenSync(f) returns f(x) and Err.andThenSync(f) the receiver
\* without invoking f; Ok.orElseSync(f) returns the receiver without invoking
\* f and Err(e).orElseSync(f) returns f(e).
C25_ChainingTable ==
  /\ Chained("Ok", "and") => (Returns(input.arg) /\ fcalls = <<>>)
  /\ Chained("Err", "and") => (Returns(recv) /\ fcalls = <<>>)
  /\ Chained("Ok", "or") => (Returns(recv) /\ fcalls = <<>>)
  /\ Chained("Err", "or") => (Returns(input.arg) /\ fcalls = <<>>)
  /\ CalledOn("Ok", {"andThenSync"}) =>
       /\ fcalls = <<CallOf("okMapper", recv.inner)>>
       /\ Returns(Apply("okMapper", recv.inner))
  /\ CalledOn("Err", {"andThenSync"}) => (Returns(recv) /\ fcalls = <<>>)
  /\ CalledOn("Ok", {"orElseSync"}) => (Returns(recv) /\ fcalls = <<>>)
  /\ CalledOn("Err", {"orElseSync"}) =>
       /\ fcalls = <<CallOf("errMapper", recv.inner)>>
       /\ Returns(Apply("errMapper", recv.inner))
C25_Witness ==
  /\ CalledOn("Err", {"orElseSync"})
  /\ Returns(Apply("errMapper", recv.inner))
  /\ Len(fcalls) = 1

\* the answer the tag predicate `op` gives on the instance v
TagPredicate(v, op) ==
  (CASE v.tag = "Ok" -> OkMethod(v, op, NoInput, 0)
     [] v.tag = "Err" -> ErrMethod(v, op, NoInput, 0)
     [] v.tag = "Some" -> SomeMethod(v, op, NoInput, 0)
     [] v.tag = "None" -> NoneMethod(v, op, NoInput, 0)).outcome.val.b
\* exactly one of the two tag predicates of its family is true of v
OneTag(v) ==
  IF v.tag \in {"Ok", "Err"}
  THEN TagPredicate(v, "isOk") # TagPredicate(v, "isErr")
  ELSE TagPredicate(v, "isSome") # TagPredicate(v, "isNone")
\* the instance at hand is the same object before and after the step; the
\* identity 0 stands for the objects the caller passes as arguments, which
\* are distinct objects
SameInstance ==
  /\ IsVariant(subject) /\ IsVariant(subject')
  /\ subject.id # 0
  /\ subject'.id = subject.id
\* the operations that transform, on the tag they transform
Transforms(tag, op) ==
  \/ tag = "Ok" /\ op \in {"set", "map", "mapSync", "clear", "ok", "err"}
  \/ tag = "Err" /\ op \in {"setErr", "mapErrSync", "clearErr", "ok", "err"}
  \/ tag = "Some" /\ op \in {"mapSync", "ok", "okOr"}
\* C24: of every instance exactly one tag predicate is true; across every
\* operation an instance keeps its tag and the inner value it was constructed
\* with; an operation that transforms returns a new instance, not the receiver.
C24_InstancesAreImmutable ==
  /\ [](IsVariant(subject) => OneTag(subject))
  /\ [][SameInstance => subject' = subject]_vars
  /\ []((IsVariant(recv) /\ Transforms(recv.tag, opname)
           /\ answer.kind = "return") =>
          (IsVariant(answer.val) /\ answer.val.id # recv.id))
C24_Witness ==
  /\ CalledOn("Ok", {"set"})
  /\ IsVariant(answer.val)
  /\ answer.val.id # recv.id
  /\ answer.val.inner # recv.inner
  /\ OneTag(subject)

\* ======================================================================
\* The build whose Err.throw() throws the Err itself and whose unthrowSync
\* filters what it catches by the classes it is given.
\* ======================================================================
MaxTypes == 2

Classes == {"Error", "TypeError", "FirstError", "SecondError"}
\* `class FirstError extends Error`: the class a class extends
Extends(cls) == IF cls = "Error" THEN "Object" ELSE "Error"
\* `new cls()`
NewObject(cls) == [tag |-> "object", class |-> cls]
\* `v instanceof type`: type is on the prototype chain of v
instanceOf(v, type) ==
  /\ v.tag = "object"
  /\ \/ v.class = type
     \/ Extends(v.class) = type
     \/ Extends(Extends(v.class)) = type

\* faulty variant: the classes are not looked at
castOrThrowAnyErr(err, types) ==
  IF ~isErr(err) THEN Thrown(err) ELSE Returned(err)
\* Err.castOrThrow(err, ...types)
castOrThrow(err, types) ==
  IF ~isErr(err) THEN Thrown(err)
  ELSE IF Len(types) = 0 THEN Returned(err)
  ELSE IF \E i \in 1..Len(types) : instanceOf(err.inner, types[i])
       THEN Returned(err)
  ELSE Thrown(err)

\* Result.unthrowSync(callback, ...types), given the callback's outcome:
\* try { return callback() } catch (e) { return Err.castOrThrow(e, ...types) }
unthrowSyncTypes(o, types) ==
  IF o.kind = "return" THEN o ELSE castOrThrow(o.val, types)

\* what a callback throws: an Err through Err.throw() (`throw this`), or any
\* other value
ThrownInners == {NewObject(c) : c \in Classes} \cup {Val(1)}
ThrownValues ==
  {NewErr(1, x) : x \in ThrownInners} \cup ThrownInners \cup {NewOk(1, Val(1))}
CallbackOutcomes ==
  {Thrown(x) : x \in ThrownValues} \cup {Returned(NewOk(1, Undefined))}
RECURSIVE TypeLists(_)
TypeLists(n) ==
  IF n = 0 THEN {<<>>}
  ELSE TypeLists(n - 1) \cup
       {Append(l, c) : l \in {t \in TypeLists(n - 1) : Len(t) = n - 1},
                       c \in Classes}
TypesInput(types, o) == [tag |-> "types", types |-> types, callback |-> o]

\* `Result.unthrowSync(callback, ...types)`
UnthrowSyncTypes(o, types) ==
  /\ Len(types) <= MaxTypes
  /\ subject' = Undefined
  /\ recv' = IF o.kind = "throw" THEN o.val ELSE Undefined
  /\ opname' = "unthrowSync"
  /\ input' = TypesInput(types, o)
  /\ answer' = unthrowSyncTypes(o, types)
  /\ fcalls' = <<>>
  /\ made' = 1
  /\ UNCHANGED <<unthrowVars, collectVars, leakVars>>

TypesNext ==
  \E o \in CallbackOutcomes : \E types \in TypeLists(MaxTypes) :
    UnthrowSyncTypes(o, types)

SpecTypes == OpsInit /\ [][TypesNext]_vars

\* the callback of the last unthrowSync threw
CallbackThrew == opname = "unthrowSync" /\ input.callback.kind = "throw"
\* the thrown value is an Err that the given classes let through
LetThrough ==
  /\ recv.tag = "Err"
  /\ \/ input.types = <<>>
     \/ /\ recv.inner.tag = "object"
        /\ \E i \in 1..Len(input.types) :
             input.types[i] \in {recv.inner.class, "Error"}
\* C26: unthrowSync(callback, ...types) returns the value the callback threw
\* exactly when it is an Err and either no classes are given or its inner
\* value is an instance of one of them; in every other case that value is
\* raised again.
C26_TypeFilteredUnthrow ==
  CallbackThrew =>
    /\ LetThrough => answer = Returned(recv)
    /\ ~LetThrough => answer = Thrown(recv)
C26_Witness ==
  /\ CallbackThrew
  /\ recv = NewErr(1, NewObject("Error"))
  /\ input.types = <<"FirstError", "SecondError">>
  /\ answer = Thrown(recv)

\* ======================================================================
\* Result.all in the leak-detector build: the instances it visits and the
\* ones it constructs carry timers like any other.
\* ======================================================================
\* the index of the first instance that is not an Ok, 0 if there is none
FirstErrAt(os) ==
  IF \E i \in 1..Len(os) : ~isOk(os[i].self)
  THEN CHOOSE i \in 1..Len(os) :
         ~isOk(os[i].self) /\ \A j \in 1..(i - 1) : isOk(os[j].self)
  ELSE 0

\* iterate yields result.get() for the first k instances: each get() starts
\* with this.ignore()
RECURSIVE GetFirst(_, _, _)
GetFirst(os, ts, k) ==
  IF k = 0 THEN [objs |-> os, timers |-> ts]
  ELSE LET p == GetFirst(os, ts, k - 1)
           r == ignore(p.objs[k], p.timers)
       IN [objs |-> [p.objs EXCEPT ![k] = r.obj], timers |-> r.timers]

\* Result.all(iterable) == collect(iterate(iterable)) over the instances os:
\* iterate returns the first Err, or Ok.void() after the last element;
\* collect returns result.value.set(array), which is `this` for an Err and
\* `new Ok(array)` for an Ok
debugAll(os, ts, flag) ==
  LET k == FirstErrAt(os)
      n == Len(os)
      p == GetFirst(os, ts, IF k = 0 THEN n ELSE k - 1)
      void == OkConstructor(n + 1, Undefined, flag)
      items == [i \in 1..n |-> os[i].self.inner]
      collected == OkConstructor(n + 2, [tag |-> "array", items |-> items], flag)
  IN IF k # 0
     THEN [objs |-> p.objs, timers |-> p.timers, result |-> k,
           terminal |-> k, touched |-> 1..k]
     ELSE [objs |-> p.objs \o <<void.obj, collected.obj>>,
           timers |-> (p.timers \cup void.scheduled) \cup collected.scheduled,
           result |-> n + 2, terminal |-> n + 1, touched |-> 1..(n + 2)]

AllIds == 1..(MaxObjs + 2)

\* `Result.all(objs)`: a synchronous call, so no timer runs inside it
DebugAll ==
  /\ Len(objs) <= MaxObjs
  /\ LET r == debugAll(objs, timers, debug) IN
       /\ objs' = r.objs
       /\ timers' = r.timers
       /\ lastop' = [op |-> "all", on |-> r.result, flag |-> debug,
                     allOk |-> FirstErrAt(objs) = 0,
                     terminal |-> r.terminal, touched |-> r.touched]
  /\ UNCHANGED <<debug, panics>>
  /\ UNCHANGED <<unthrowVars, collectVars, opsVars>>

LeakAllNext ==
  \/ \E b \in BOOLEAN : SetDebug(b)
  \/ \E kind \in {"Ok", "Err"} : Construct(kind, Val(1))
  \/ \E i \in AllIds : Ignore(i)
  \/ \E i \in AllIds : \E op \in DebugOps : Method(i, op)
  \/ \E i \in AllIds : Fire(i)
  \/ DebugAll

SpecLeakAll == LeakInit /\ [][LeakAllNext]_vars

\* the step in which the caller consumes the Result that Result.all has just
\* returned, the call having run on an all-Ok source with the flag enabled
ConsumesAllResult ==
  /\ lastop.op = "all"
  /\ lastop.flag
  /\ lastop.allOk
  /\ lastop'.op \in {"get", "unwrap", "ok", "err"}
  /\ lastop'.on = lastop.on
\* C27: with the debug flag enabled, once the caller has consumed the Result
\* that Result.all returned for an all-Ok source, no instance the call
\* visited or created has a pending diagnostic, the terminal Ok.void() of
\* iterate included.
C27_AllLeavesNothingPending ==
  [][ConsumesAllResult =>
       \A i \in lastop.touched : ~(\E t \in timers' : t.id = i)]_vars

\* the step invokes a thrower: directly, or through Err.throw
InvokesThrower ==
  \/ last'.op = "thrower"
  \/ last'.op = "throw" /\ isErr(last'.recv)
\* the step is the catch block of scope s receiving a signal while the slot
\* is filled
AbortsFilled(s) ==
  /\ last'.op = "escape"
  /\ last'.scope = s
  /\ st[s] = "running"
  /\ ref[s] # Undefined
\* C28: the slot of an invocation is empty when the invocation starts, is
\* written only by invocations of its own thrower, and then holds the argument
\* of the most recent one; when the callback aborts after one or several
\* invocations of the thrower, the invocation returns the Err most recently
\* passed to it.
C28_SlotHoldsLatestArgument ==
  [][/\ \A s \in Scopes :
          (st[s] = "idle" /\ st'[s] = "running") => ref'[s] = Undefined
     /\ \A s \in Scopes :
          (st[s] = "running" /\ ref'[s] # ref[s]) =>
            (InvokesThrower /\ last'.thrower = s)
     /\ InvokesThrower => ref'[last'.thrower] = last'.recv
     /\ \A s \in Scopes :
          AbortsFilled(s) => (st'[s] = "returned" /\ out'[s] = ref[s])]_vars
C28_Witness ==
  /\ calls[1] = 2
  /\ last = [op |-> "escape", scope |-> 1]
  /\ st[1] = "returned"
  /\ out[1] = NewErr(2, Val(2))
  /\ caught[1].origin = 1
  /\ caught[1].err = NewErr(2, Val(2))

\* ======================================================================
\* Several `await Result.unthrow(callback)` invocations started side by side:
\* one callback runs at a time and the others wait at an await.
\* ======================================================================
\* faulty variant: one slot shared by every invocation
SlotShared(a) == 1
\* the slot the thrower of invocation a assigns and its catch block reads:
\* the `let ref` of that call
SlotOf(a) == a

\* the callback of invocation a is the code that is executing
Active(a) == st[a] = "running" /\ ~awaiting[a]
NoneActive == \A a \in Scopes : ~Active(a)

\* `Result.unthrow(callback)` is called: `let ref`, then the callback runs
StartInvocation(a) ==
  /\ st[a] = "idle"
  /\ NoneActive
  /\ st' = [st EXCEPT ![a] = "running"]
  /\ ref' = [ref EXCEPT ![SlotOf(a)] = Undefined]
  /\ last' = [op |-> "enter", scope |-> a]
  /\ UNCHANGED <<build, mode, sig, awaiting, calls, caught, cbret, out>>
  /\ UNCHANGED <<collectVars, opsVars, leakVars>>

\* the callback of invocation a calls e.throw(t), t the thrower of a running
\* invocation: thrower(this); throw this
ThrowIn(a, e, t) ==
  /\ Active(a)
  /\ sig[a] = NoSig
  /\ st[t] = "running"
  /\ TotalCalls(MaxDepth) < MaxCalls
  /\ ref' = [ref EXCEPT ![SlotOf(t)] =
               Invoke(ref[SlotOf(t)], ErrThrow(e).invoked)]
  /\ calls' = [calls EXCEPT ![t] = calls[t] + 1]
  /\ fcalls' = Append(fcalls, CallOf(t, ErrThrow(e).invoked[1]))
  /\ sig' = [sig EXCEPT ![a] = Signal(ErrThrow(e).raised[1], t, e)]
  /\ last' = [op |-> "throw", scope |-> a, recv |-> e, thrower |-> t]
  /\ UNCHANGED <<build, mode, st, awaiting, caught, cbret, out>>
  /\ UNCHANGED <<collectVars, leakVars>>
  /\ UNCHANGED <<subject, made, recv, opname, input, answer>>

\* a try/catch inside the callback swallows the signal in flight
CatchIn(a) ==
  /\ Active(a)
  /\ sig[a] # NoSig
  /\ sig' = [sig EXCEPT ![a] = NoSig]
  /\ last' = [op |-> "catch", scope |-> a]
  /\ UNCHANGED <<build, mode, st, ref, awaiting, calls, caught, cbret, out>>
  /\ UNCHANGED <<collectVars, opsVars, leakVars>>

\* the callback suspends at an await: another invocation may run
Suspend(a) ==
  /\ Active(a)
  /\ sig[a] = NoSig
  /\ awaiting' = [awaiting EXCEPT ![a] = TRUE]
  /\ last' = [op |-> "await", scope |-> a]
  /\ UNCHANGED <<build, mode, st, ref, sig, calls, caught, cbret, out>>
  /\ UNCHANGED <<collectVars, opsVars, leakVars>>

\* the event loop resumes it when no other callback is executing
Wake(a) ==
  /\ st[a] = "running"
  /\ awaiting[a]
  /\ NoneActive
  /\ awaiting' = [awaiting EXCEPT ![a] = FALSE]
  /\ last' = [op |-> "resume", scope |-> a]
  /\ UNCHANGED <<build, mode, st, ref, sig, calls, caught, cbret, out>>
  /\ UNCHANGED <<collectVars, opsVars, leakVars>>

\* the callback returns v: `return await callback(...)`
Finish(a, v) ==
  /\ Active(a)
  /\ sig[a] = NoSig
  /\ LET res == unthrow(ref[SlotOf(a)], Returned(v)) IN
       /\ st' = [st EXCEPT ![a] = "returned"]
       /\ out' = [out EXCEPT ![a] = res.val]
  /\ cbret' = [cbret EXCEPT ![a] = v]
  /\ last' = [op |-> "return", scope |-> a]
  /\ UNCHANGED <<build, mode, ref, sig, awaiting, calls, caught>>
  /\ UNCHANGED <<collectVars, opsVars, leakVars>>

\* the signal in flight leaves the callback: the catch block of unthrow
Abort(a) ==
  /\ Active(a)
  /\ sig[a] # NoSig
  /\ LET res == unthrow(ref[SlotOf(a)], Thrown(sig[a].payload)) IN
       /\ st' = [st EXCEPT ![a] =
                   IF res.kind = "return" THEN "returned" ELSE "raised"]
       /\ out' = [out EXCEPT ![a] = res.val]
  /\ caught' = [caught EXCEPT ![a] = sig[a]]
  /\ sig' = [sig EXCEPT ![a] = NoSig]
  /\ last' = [op |-> "escape", scope |-> a]
  /\ UNCHANGED <<build, mode, ref, awaiting, calls, cbret>>
  /\ UNCHANGED <<collectVars, opsVars, leakVars>>

ConcurrentInit ==
  /\ build = "mod"
  /\ mode = "async"
  /\ st = [s \in Scopes |-> "idle"]
  /\ ref = [s \in Scopes |-> Undefined]
  /\ sig = [s \in Scopes |-> NoSig]
  /\ awaiting = [s \in Scopes |-> FALSE]
  /\ calls = [s \in Scopes |-> 0]
  /\ caught = [s \in Scopes |-> NoSig]
  /\ cbret = [s \in Scopes |-> Undefined]
  /\ out = [s \in Scopes |-> Undefined]
  /\ last = NoStep
  \* no collection is running
  /\ fn = "all"
  /\ source = <<>>
  /\ runs = 0
  /\ pc = "idle"
  /\ pulled = 0
  /\ array = <<>>
  /\ cur = [done |-> TRUE, value |-> Undefined]
  /\ created = 0
  /\ ret = NoResult
  /\ prev = NoResult
  \* no thrower has been invoked
  /\ subject = Undefined
  /\ made = 0
  /\ recv = Undefined
  /\ opname = "none"
  /\ input = NoInput
  /\ answer = [kind |-> "none"]
  /\ fcalls = <<>>
  \* no instance of the leak-detector build exists
  /\ debug = FALSE
  /\ objs = <<>>
  /\ timers = {}
  /\ panics = {}
  /\ lastop = [op |-> "none"]

ConcurrentNext ==
  \/ \E a \in Scopes : StartInvocation(a)
  \/ \E a \in Scopes, e \in Errs, t \in Scopes : ThrowIn(a, e, t)
  \/ \E a \in Scopes : CatchIn(a)
  \/ \E a \in Scopes : Suspend(a)
  \/ \E a \in Scopes : Wake(a)
  \/ \E a \in Scopes, v \in Oks : Finish(a, v)
  \/ \E a \in Scopes : Abort(a)

SpecConcurrent == ConcurrentInit /\ [][ConcurrentNext]_vars

\* invocation a returned through its catch block
ReturnedByCatch(a) == st[a] = "returned" /\ caught[a] # NoSig
\* the thrower of invocation a was invoked with e
PassedTo(a, e) == \E i \in 1..Len(fcalls) : fcalls[i] = CallOf(a, e)
\* C29: of unthrow invocations whose callbacks interleave at their awaits,
\* each returns through its catch block only an Err that was passed to its
\* own thrower, and the slot of an invocation changes only when its own
\* thrower is invoked, never through the thrower of another.
C29_InvocationsKeepTheirSlots ==
  /\ [](\A a \in Scopes : ReturnedByCatch(a) => PassedTo(a, out[a]))
  /\ [][\A a \in Scopes :
          (st[a] = "running" /\ ref'[a] # ref[a]) =>
            (last'.op = "throw" /\ last'.thrower = a)]_vars
C29_Witness ==
  /\ ReturnedByCatch(1)
  /\ ReturnedByCatch(2)
  /\ out[1] = NewErr(1, Val(1))
  /\ out[2] = NewErr(2, Val(2))
  /\ fcalls = <<CallOf(2, NewErr(2, Val(2))), CallOf(1, NewErr(1, Val(1)))>>

\* the call has returned and the generator had ended on an Err
EndedOnErr == Finished /\ cur.done /\ isErr(cur.value)
\* C30: when Result.all or collect ends on an Err, what it returns is the very
\* Err instance the source produced, with its inner value unchanged, and the
\* array of the values collected before it is no part of the result:
\* Err.set(array) returns the receiver.
C30_ErrReturnedIsTheSourceInstance ==
  EndedOnErr =>
    /\ ret = cur.value
    /\ ret.id = source[pulled].id
    /\ isErr(source[pulled])
    /\ ret.inner = get(source[pulled])
    /\ ret.inner \in Inners
C30_Witness ==
  /\ EndedOnErr
  /\ Len(array) >= 1
  /\ pulled = Len(array) + 1
  /\ ret = source[pulled]
  /\ fn = "all"

====
